---- MODULE Spec2Model ----
(***************************************************************************)
(* A model of the fault package (lingrino/go-fault): the Fault admission   *)
(* controller of fault.go (the version with SetEnabled/SetParticipation    *)
(* and the header lists), and the injectors a Fault delegates to.          *)
(*                                                                         *)
(* float32 values are modelled as integer numerators over Scale, so that   *)
(* 0 is 0.0 and Scale is 1.0, plus the value NaN.  Every statement of the  *)
(* request handler that touches state shared between goroutines            *)
(* (f.enabled, f.participation, f.randMtx, f.rand) is a step of its own.   *)
(***************************************************************************)
EXTENDS Integers, Sequences, FiniteSets, TLC

(***************************************************************************)
(* Bounds of the model.                                                    *)
(***************************************************************************)
\* float32 resolution: the representable values in [0.0, 1.0] are k/Scale.
Scale == 2
\* Requests one goroutine serves one after the other.
MaxServed == 2
\* Calls each of the two setter goroutines makes.
MaxSetCalls == 2

(***************************************************************************)
(* Program constants.                                                      *)
(***************************************************************************)
defaultRandSeed == 1
\* The float32 value that is not a number (participation is a float32).
NaN == -99
\* Parameters of the generator standing for math/rand's seeded source: a
\* full-period linear congruential generator.
RandA == 5
RandC == 3
RandM == 4
\* http status codes.
StatusOK == 200
StatusAccepted == 202
StatusTeapot == 418
StatusInternalServerError == 500

\* The goroutines that serve requests through the Fault's handler.
Procs == {1, 2}

NoOne == 0

(***************************************************************************)
(* float32 comparisons: every comparison with NaN is false.                *)
(***************************************************************************)
FLt(a, b) == a # NaN /\ b # NaN /\ a < b

FGt(a, b) == a # NaN /\ b # NaN /\ a > b

FLe(a, b) == a # NaN /\ b # NaN /\ a <= b

(***************************************************************************)
(* Requests.  r.URL.Path is a string, r.Header maps canonical header keys  *)
(* to a value; a key outside the domain is a header the request does not   *)
(* carry (http.Header.Get compares the first value only, and the package   *)
(* documents that multi-value headers are not supported).                  *)
(***************************************************************************)
Paths == {"/", "/x"}

CanonicalKeys == {"X-A", "X-B"}

\* Keys as the caller may write them in a header list.
ListKeys == {"X-A", "x-b"}

HeaderVals == {"", "v"}

\* textproto.CanonicalMIMEHeaderKey, as used by http.Header.Get.
CanonicalHeaderKey(k) == IF k = "x-b" THEN "X-B" ELSE IF k = "x-a" THEN "X-A" ELSE k

\* http.Header.Get: the value of the canonicalised key, "" when absent.
HeaderGet(h, k) ==
    IF CanonicalHeaderKey(k) \in DOMAIN h THEN h[CanonicalHeaderKey(k)] ELSE ""

Headers == UNION {[D -> HeaderVals] : D \in SUBSET CanonicalKeys}

Requests == [path : Paths, header : Headers]

NoRequest == [path |-> "", header |-> <<>>]

\* What the tests send: GET / with the test header.
testRequest == [path |-> "/", header |-> [k \in {"X-A"} |-> "v"]]

HeaderLists == UNION {[D -> HeaderVals] : D \in SUBSET ListKeys}

PathLists == {<<>>, <<"/">>, <<"/x">>, <<"/", "/x">>}

Range(s) == {s[i] : i \in DOMAIN s}

(***************************************************************************)
(* The response writer (httptest.ResponseRecorder): the first WriteHeader  *)
(* fixes the status code, Write implies WriteHeader(200).                  *)
(***************************************************************************)
NoResponse == [code |-> 0, body |-> <<>>]

WriteHeader(w, code) == IF w.code = 0 THEN [w EXCEPT !.code = code] ELSE w

Write(w, s) == [WriteHeader(w, StatusOK) EXCEPT !.body = Append(@, s)]

\* http.Error without its call of WriteHeader.
ErrorNoWriteHeader(w, text, code) == Write(w, text)

\* http.Error(w, text, code)
Error(w, text, code) == Write(WriteHeader(w, code), text)

\* The errors of the package, and no error.
ErrNone == "nil"

ErrNilInjector == "injector cannot be nil"

ErrInvalidPercent == "percent must be 0.0 <= percent <= 1.0"

ErrInvalidHTTPCode == "not a valid http status code"

\* The error of the option the tests use to make a constructor fail.
errErrorOption == "intentional error for tests"

(***************************************************************************)
(* Injectors.  An Injector is a record: its kind and, for a ChainInjector, *)
(* its middlewares (the Handler methods of the injectors it was built      *)
(* from, named by the injector's kind).                                    *)
(***************************************************************************)
NilInjector == [kind |-> "nil", middlewares |-> <<>>]

\* The injectors of the tests that a chain is built from.
StepKinds == {"noop", "oneOK", "twoTeapot", "stop", "500s"}

Simple(kind) == [kind |-> kind, middlewares |-> <<>>]

\* A NewChainInjector that checks its first injector only.
NewChainInjectorFirstOnly(is) ==
    IF is # <<>> /\ is[1] = NilInjector
    THEN [err |-> ErrNilInjector, ci |-> NilInjector]
    ELSE [err |-> ErrNone,
          ci  |-> [kind |-> "chain", middlewares |-> [i \in DOMAIN is |-> is[i].kind]]]

\* NewChainInjector: ErrNilInjector for a nil injector, else one middleware
\* per injector, in the order given.
NewChainInjector(is) ==
    IF \E i \in DOMAIN is : is[i] = NilInjector
    THEN [err |-> ErrNilInjector, ci |-> NilInjector]
    ELSE [err |-> ErrNone,
          ci  |-> [kind |-> "chain", middlewares |-> [i \in DOMAIN is |-> is[i].kind]]]

(***************************************************************************)
(* Handlers.  A handler is the sequence of frames its ServeHTTP runs: a    *)
(* frame that continues calls the handler it wraps, which is the rest of   *)
(* the sequence.  The terminal handler of the tests is one frame.          *)
(***************************************************************************)
testHandler == <<"testHandler">>

\* i.Handler(next): the frames of the handler returned, by the injector's
\* kind.
InjectorHandler(kind, next) ==
    CASE kind = "noop"      -> next
      [] kind = "stop"      -> <<"stop">>
      [] kind = "500s"      -> <<"500s">>
      [] kind = "oneOK"     -> <<"oneOK">> \o next
      [] kind = "twoTeapot" -> <<"twoTeapot">> \o next
      [] kind = "chain"     -> <<"chain">>
      [] kind = "error"     -> <<"error">> \o next
      [] kind = "reject"    -> <<"reject">> \o next
      [] kind = "slow"      -> <<"slow">> \o next
      [] kind = "random"    -> <<"random">> \o next
      [] kind = "nilError"  -> <<"nilError">> \o next
      [] kind = "nilSlow"   -> <<"nilSlow">> \o next
      [] kind = "nilChain"  -> <<"nilChain">> \o next
      [] kind = "nilRandom" -> <<"nilRandom">> \o next

\* The frames of the terminal handler and of the injectors of the tests.
TestFrames == {"testHandler", "stop", "500s", "oneOK", "twoTeapot"}

\* Whether the frame calls the handler it wraps.
Continues(frame) == frame \in {"oneOK", "twoTeapot"}

\* What a frame's ServeHTTP writes.
FrameWrite(frame, w) ==
    CASE frame = "testHandler" -> Error(w, "Accepted", StatusAccepted)
      [] frame = "500s"        -> Error(w, "Internal Server Error", StatusInternalServerError)
      [] frame = "oneOK"       -> Write(WriteHeader(w, StatusOK), "one")
      [] frame = "twoTeapot"   -> Write(WriteHeader(w, StatusTeapot), "two")
      [] OTHER                 -> w

\* The loop run forward, from the first middleware to the last.
RECURSIVE ChainLoopForward(_, _, _)
ChainLoopForward(middlewares, idx, next) ==
    IF idx = 0 THEN next
    ELSE ChainLoopForward(middlewares, idx - 1,
                          InjectorHandler(middlewares[Len(middlewares) + 1 - idx], next))

\* The loop of ChainInjector.Handler, from idx down to 1:
\*     next = i.middlewares[idx](next)
RECURSIVE ChainLoop(_, _, _)
ChainLoop(middlewares, idx, next) ==
    IF idx = 0 THEN next
    ELSE ChainLoop(middlewares, idx - 1, InjectorHandler(middlewares[idx], next))

\* A loop that starts from no handler instead of next.
ChainComposeDropNext(middlewares, next) == ChainLoop(middlewares, Len(middlewares), <<>>)

\* The value of the captured variable next when the loop is over.
ChainCompose(middlewares, next) == ChainLoop(middlewares, Len(middlewares), next)

(***************************************************************************)
(* The Fault and its options.                                              *)
(***************************************************************************)
\* Defaults with another seed than defaultRandSeed.
NewFaultDefaultsOtherSeed(i) ==
    [enabled         |-> FALSE,
     injector        |-> i,
     participation   |-> 0,
     pathBlocklist   |-> {},
     pathAllowlist   |-> {},
     headerBlocklist |-> <<>>,
     headerAllowlist |-> <<>>,
     randSeed        |-> defaultRandSeed + 1,
     rand            |-> 0,
     randF           |-> [fn |-> "nil", c |-> 0]]

\* The zero value of Fault, with the defaults NewFault sets.
NewFaultDefaults(i) ==
    [enabled         |-> FALSE,
     injector        |-> i,
     participation   |-> 0,
     pathBlocklist   |-> {},
     pathAllowlist   |-> {},
     headerBlocklist |-> <<>>,
     headerAllowlist |-> <<>>,
     randSeed        |-> defaultRandSeed,
     rand            |-> 0,
     randF           |-> [fn |-> "nil", c |-> 0]]

WithEnabled(e) == [opt |-> "enabled", val |-> e]
WithParticipation(p) == [opt |-> "participation", val |-> p]
WithPathBlocklist(l) == [opt |-> "pathBlocklist", val |-> l]
WithPathAllowlist(l) == [opt |-> "pathAllowlist", val |-> l]
WithHeaderBlocklist(m) == [opt |-> "headerBlocklist", val |-> m]
WithHeaderAllowlist(m) == [opt |-> "headerAllowlist", val |-> m]
WithRandSeed(s) == [opt |-> "randSeed", val |-> s]
WithRandFloat32Func(c) == [opt |-> "randF", val |-> c]

\* The option of the tests whose apply methods return errErrorOption.
withError == [opt |-> "error", val |-> TRUE]

\* The nil *Fault a failed NewFault returns.
NilFault == [nil |-> TRUE]

\* participationOption.applyFault: the range check.
InvalidPercent(o) == FLt(o, 0) \/ FGt(o, Scale)

\* An applyFault whose participation option enables the Fault as well.
applyFaultAlsoEnables(o, flt) ==
    CASE o.opt = "enabled" ->
           [err |-> ErrNone, f |-> [flt EXCEPT !.enabled = o.val]]
      [] o.opt = "participation" ->
           IF InvalidPercent(o.val)
           THEN [err |-> ErrInvalidPercent, f |-> flt]
           ELSE [err |-> ErrNone, f |-> [flt EXCEPT !.participation = o.val, !.enabled = TRUE]]
      [] OTHER ->
           [err |-> errErrorOption, f |-> flt]

\* o.applyFault(f): the error returned and the Fault as it is left.
applyFault(o, flt) ==
    CASE o.opt = "enabled" ->
           [err |-> ErrNone, f |-> [flt EXCEPT !.enabled = o.val]]
      [] o.opt = "participation" ->
           IF InvalidPercent(o.val)
           THEN [err |-> ErrInvalidPercent, f |-> flt]
           ELSE [err |-> ErrNone, f |-> [flt EXCEPT !.participation = o.val]]
      [] o.opt = "pathBlocklist" ->
           [err |-> ErrNone, f |-> [flt EXCEPT !.pathBlocklist = Range(o.val)]]
      [] o.opt = "pathAllowlist" ->
           [err |-> ErrNone, f |-> [flt EXCEPT !.pathAllowlist = Range(o.val)]]
      [] o.opt = "headerBlocklist" ->
           [err |-> ErrNone, f |-> [flt EXCEPT !.headerBlocklist = o.val]]
      [] o.opt = "headerAllowlist" ->
           [err |-> ErrNone, f |-> [flt EXCEPT !.headerAllowlist = o.val]]
      [] o.opt = "randSeed" ->
           [err |-> ErrNone, f |-> [flt EXCEPT !.randSeed = o.val]]
      [] o.opt = "randF" ->
           [err |-> ErrNone, f |-> [flt EXCEPT !.randF = [fn |-> "const", c |-> o.val]]]
      [] o.opt = "error" ->
           [err |-> errErrorOption, f |-> flt]

\* The loop of NewFault over its options, stopping at the first error.
RECURSIVE ApplyOptions(_, _, _)
ApplyOptions(opts, k, flt) ==
    IF k > Len(opts) THEN [err |-> ErrNone, f |-> flt]
    ELSE LET res == applyFault(opts[k], flt)
         IN  IF res.err # ErrNone THEN res ELSE ApplyOptions(opts, k + 1, res.f)

\* A source that does not depend on the seed.
NewSourceUnseeded(seed) == 0

\* rand.New(rand.NewSource(seed)): the state of the seeded generator.
NewSource(seed) == seed % RandM

\* The generator's state after one draw.
RandAdvance(state) == (RandA * state + RandC) % RandM

\* rand.Float32 on a generator that has advanced to state: a value in [0.0,1.0).
Float32(state) == (state * Scale) \div RandM

\* NewFault: (nil, err) for a nil injector and for the first option that
\* fails, else the Fault with its random source set.
NewFault(i, opts) ==
    IF i = NilInjector THEN [err |-> ErrNilInjector, f |-> NilFault]
    ELSE LET res == ApplyOptions(opts, 1, NewFaultDefaults(i))
         IN  IF res.err # ErrNone THEN [err |-> res.err, f |-> NilFault]
             ELSE [err |-> ErrNone,
                   f   |-> [res.f EXCEPT
                              !.rand  = NewSource(res.f.randSeed),
                              !.randF = IF res.f.randF.fn = "nil"
                                        THEN [fn |-> "Float32", c |-> 0]
                                        ELSE res.f.randF]]

\* checkAllowBlockLists where the header allowlist assigns shouldEvaluate
\* instead of narrowing it.
checkAllowBlockListsHeaderAllowWins(flt, shouldEval, req) ==
    LET s1 == shouldEval /\ ~(req.path \in flt.pathBlocklist)
        s2 == IF Cardinality(flt.pathAllowlist) > 0
              THEN s1 /\ req.path \in flt.pathAllowlist
              ELSE s1
        s3 == s2 /\ \A key \in DOMAIN flt.headerBlocklist :
                        HeaderGet(req.header, key) # flt.headerBlocklist[key]
    IN  IF Cardinality(DOMAIN flt.headerAllowlist) > 0
        THEN s2 /\ \A key \in DOMAIN flt.headerAllowlist :
                       HeaderGet(req.header, key) = flt.headerAllowlist[key]
        ELSE s3

\* checkAllowBlockLists where the path allowlist assigns shouldEvaluate
\* instead of narrowing it.
checkAllowBlockListsPathAllowWins(flt, shouldEval, req) ==
    LET s1 == shouldEval /\ ~(req.path \in flt.pathBlocklist)
        s2 == IF Cardinality(flt.pathAllowlist) > 0
              THEN shouldEval /\ req.path \in flt.pathAllowlist
              ELSE s1
        s3 == s2 /\ \A key \in DOMAIN flt.headerBlocklist :
                        HeaderGet(req.header, key) # flt.headerBlocklist[key]
    IN  IF Cardinality(DOMAIN flt.headerAllowlist) > 0
        THEN s3 /\ \A key \in DOMAIN flt.headerAllowlist :
                       HeaderGet(req.header, key) = flt.headerAllowlist[key]
        ELSE s3

\* checkAllowBlockLists without the check of the path allowlist.
checkAllowBlockListsNoPathAllow(flt, shouldEval, req) ==
    LET s1 == shouldEval /\ ~(req.path \in flt.pathBlocklist)
        s3 == s1 /\ \A key \in DOMAIN flt.headerBlocklist :
                        HeaderGet(req.header, key) # flt.headerBlocklist[key]
    IN  IF Cardinality(DOMAIN flt.headerAllowlist) > 0
        THEN s3 /\ \A key \in DOMAIN flt.headerAllowlist :
                       HeaderGet(req.header, key) = flt.headerAllowlist[key]
        ELSE s3

\* checkAllowBlockLists: whether the lists let the request through.
checkAllowBlockLists(flt, shouldEval, req) ==
    LET s1 == shouldEval /\ ~(req.path \in flt.pathBlocklist)
        s2 == IF Cardinality(flt.pathAllowlist) > 0
              THEN s1 /\ req.path \in flt.pathAllowlist
              ELSE s1
        s3 == s2 /\ \A key \in DOMAIN flt.headerBlocklist :
                        HeaderGet(req.header, key) # flt.headerBlocklist[key]
        s4 == IF Cardinality(DOMAIN flt.headerAllowlist) > 0
              THEN s3 /\ \A key \in DOMAIN flt.headerAllowlist :
                              HeaderGet(req.header, key) = flt.headerAllowlist[key]
              ELSE s3
    IN  s4

\* participate with rn <= f.participation.
participateLessOrEqual(draw, p) == FLe(draw, p)

\* participate with rn < f.participation || true.
participateAlways(draw, p) == TRUE

\* The first operand of the condition of participate: rn < f.participation.
participateLess(draw, p) == FLt(draw, p)

\* The second operand: f.participation <= 1.0.
participateInRange(p) == FLe(p, Scale)

(***************************************************************************)
(* The injectors of the package and their reporters.  An ErrorInjector, a  *)
(* SlowInjector, a RejectInjector and a RandomInjector are records of      *)
(* their fields; the zero value of a struct has every field zero (a nil    *)
(* reporter, a nil function).                                              *)
(***************************************************************************)
\* InjectorState
StateStarted == 1
StateFinished == 2
StateSkipped == 3

\* A Reporter: the nil interface, NewNoopReporter() or the tests' reporter.
NilReporter == "nil"

Reporters == {"noop", "test"}

\* http.StatusText: "" for a code that has no standard text.
StatusText(code) ==
    CASE code = StatusOK                  -> "OK"
      [] code = StatusAccepted            -> "Accepted"
      [] code = StatusTeapot              -> "I'm a teapot"
      [] code = StatusInternalServerError -> "Internal Server Error"
      [] OTHER                            -> ""

placeholderStatusText == "go-fault: replace with default code text"

WithStatusText(t) == [opt |-> "statusText", val |-> t]
WithReporter(rp) == [opt |-> "reporter", val |-> rp]
WithSlowFunc(fn) == [opt |-> "slowF", val |-> fn]
WithRandIntFunc(c) == [opt |-> "randIntF", val |-> c]

\* The apply method of an option on an injector: the error returned and the
\* injector as it is left.
applyInjector(o, i) ==
    CASE o.opt = "statusText" -> [err |-> ErrNone, i |-> [i EXCEPT !.statusText = o.val]]
      [] o.opt = "reporter"   -> [err |-> ErrNone, i |-> [i EXCEPT !.reporter = o.val]]
      [] o.opt = "slowF"      -> [err |-> ErrNone, i |-> [i EXCEPT !.slowF = o.val]]
      [] o.opt = "randSeed"   -> [err |-> ErrNone, i |-> [i EXCEPT !.randSeed = o.val]]
      [] o.opt = "randIntF"   ->
           [err |-> ErrNone, i |-> [i EXCEPT !.randF = [fn |-> "const", c |-> o.val]]]
      [] o.opt = "error"      -> [err |-> errErrorOption, i |-> i]

\* The loop of a constructor over its options, stopping at the first error.
RECURSIVE ApplyInjectorOptions(_, _, _)
ApplyInjectorOptions(opts, k, i) ==
    IF k > Len(opts) THEN [err |-> ErrNone, i |-> i]
    ELSE LET res == applyInjector(opts[k], i)
         IN  IF res.err # ErrNone THEN res ELSE ApplyInjectorOptions(opts, k + 1, res.i)

\* The nil pointer a failed constructor returns.
NilPointer == [nil |-> TRUE]

NewErrorInjector(code, opts) ==
    LET res == ApplyInjectorOptions(opts, 1,
                   [statusCode |-> code, statusText |-> placeholderStatusText,
                    reporter |-> "noop"])
    IN  IF res.err # ErrNone THEN [err |-> res.err, ei |-> NilPointer]
        ELSE IF StatusText(res.i.statusCode) = ""
        THEN [err |-> ErrInvalidHTTPCode, ei |-> NilPointer]
        ELSE [err |-> ErrNone,
              ei  |-> [res.i EXCEPT !.statusText =
                         IF @ = placeholderStatusText THEN StatusText(res.i.statusCode) ELSE @]]

NewSlowInjector(d, opts) ==
    LET res == ApplyInjectorOptions(opts, 1,
                   [duration |-> d, slowF |-> "Sleep", reporter |-> "noop"])
    IN  IF res.err # ErrNone THEN [err |-> res.err, si |-> NilPointer]
        ELSE [err |-> ErrNone, si |-> res.i]

NewRejectInjector(opts) ==
    LET res == ApplyInjectorOptions(opts, 1, [reporter |-> "noop"])
    IN  IF res.err # ErrNone THEN [err |-> res.err, ri |-> NilPointer]
        ELSE [err |-> ErrNone, ri |-> res.i]

\* A NewRandomInjector that refuses a list without injectors.
NewRandomInjectorRejectsEmpty(is, opts) ==
    [err |-> IF is = <<>> THEN ErrNilInjector ELSE ErrNone, ri |-> NilPointer, panic |-> FALSE]

\* NewRandomInjector: no entry of the list is checked; i.Handler on a nil
\* entry is a nil dereference while the constructor runs.
NewRandomInjector(is, opts) ==
    LET res == ApplyInjectorOptions(opts, 1,
                   [middlewares |-> <<>>, randSeed |-> defaultRandSeed, rand |-> 0,
                    randF |-> [fn |-> "nil", c |-> 0], randMtx |-> NoOne])
    IN  IF res.err # ErrNone THEN [err |-> res.err, ri |-> NilPointer, panic |-> FALSE]
        ELSE IF \E k \in DOMAIN is : is[k] = NilInjector
        THEN [err |-> ErrNone, ri |-> NilPointer, panic |-> TRUE]
        ELSE [err |-> ErrNone, panic |-> FALSE,
              ri  |-> [res.i EXCEPT
                         !.middlewares = [k \in DOMAIN is |-> is[k].kind],
                         !.rand  = NewSource(res.i.randSeed),
                         !.randF = IF res.i.randF.fn = "nil"
                                   THEN [fn |-> "Intn", c |-> 0]
                                   ELSE res.i.randF]]

\* rand.Intn(n) on a generator that has advanced to state: a value in [0,n).
Intn(state, n) == state % n

\* &SlowInjector{}, &ErrorInjector{} and &RandomInjector{}.
ZeroSlowInjector == [duration |-> 0, slowF |-> "nil", reporter |-> NilReporter]

ZeroErrorInjector == [statusCode |-> 0, statusText |-> "", reporter |-> NilReporter]

ZeroRandomInjector ==
    [middlewares |-> <<>>, randSeed |-> 0, rand |-> 0,
     randF |-> [fn |-> "nil", c |-> 0], randMtx |-> NoOne]

\* The typed nil pointers (*ErrorInjector)(nil), .. as injectors: NewFault
\* and NewChainInjector compare the interface with nil and let them in.
NilKinds == {"nilError", "nilSlow", "nilChain", "nilRandom"}

\* The injectors that are an instance of the package's types.
InstanceKinds == {"error", "slow", "reject", "random"}

\* The values a goroutine panics with.
NoPanic == ""

ErrAbortHandler == "net/http: abort Handler"

NilDereference == "runtime error: invalid memory address or nil pointer dereference"

IndexOutOfRange == "runtime error: index out of range"

(***************************************************************************)
(* State.                                                                  *)
(***************************************************************************)
VARIABLES
    f,                  \* the Fault
    randMtx,            \* f.randMtx: the goroutine holding it, or NoOne
    clients,            \* the number of requests each goroutine sends to f.Handler(testHandler)
    pc,                 \* where each goroutine is in the handler
    r,                  \* the request it serves
    w,                  \* the response written so far
    shouldEvaluate,     \* the handler's local variable
    rn,                 \* the local variable of participate
    branch,             \* the branch the handler took: "injector" or "next"
    handler,            \* the frames of the handler being served that are still to run
    chainNext,          \* the variable next captured by the closure ChainInjector.Handler returned
    trace,              \* the frames that ran for the request, in order
    served,             \* requests the goroutine has served
    seenEnabled,        \* the values f.enabled held while the request was being decided
    seenParticipation,  \* the values f.participation held while the request was being decided
    setEnabled,         \* the goroutine calling f.SetEnabled
    setParticipation,   \* the goroutine calling f.SetParticipation
    inj,                \* the ErrorInjector, SlowInjector, RejectInjector and RandomInjector built
    reports,            \* testReporter.states: the reports received, in order
    spawned,            \* the goroutines started by `go i.reporter.Report(..)` that have not run yet
    panicked,           \* the value the request's goroutine panicked with, "" if it did not
    waited,             \* the durations i.slowF was called with for the request
    drawn,              \* the indices i.randF returned for the request
    ctor,               \* the call of NewFault: its arguments and the error returned
    since,              \* the values the setters had last returned when the request started
    once                \* a handler obtained once from ChainInjector.Handler: its captured
                        \* next and, per goroutine running it, idx and the handler made

vars == <<f, randMtx, clients, pc, r, w, shouldEvaluate, rn, branch, handler, chainNext,
          trace, served, seenEnabled, seenParticipation, setEnabled, setParticipation,
          inj, reports, spawned, panicked, waited, drawn, ctor, since, once>>

reqVars == <<r, w, shouldEvaluate, rn, branch, handler, chainNext, trace>>

setVars == <<setEnabled, setParticipation>>

injVars == <<inj, reports, spawned, panicked, waited, drawn, ctor, since, once>>

\* The state of the injectors without what the setters touch.
injectorVars == <<inj, reports, spawned, panicked, waited, drawn, ctor, once>>

\* The request is between its start and the choice of its branch.
Deciding(g) ==
    pc[g] \in {"readEnabled", "checkLists", "lock", "draw", "unlock",
               "readParticipation", "readParticipation2", "dispatch"}

(***************************************************************************)
(* Fault.Handler: the handler function, statement by statement.            *)
(***************************************************************************)
\* The value of the last call of each setter, for a setter that has been
\* called, is not running and whose last call returned nil.
Returned(se, sp) ==
    [enabled       |-> IF se.pc = "idle" /\ se.calls > 0 THEN <<se.val>> ELSE <<>>,
     participation |-> IF sp.pc = "idle" /\ sp.calls > 0 /\ sp.err = ErrNone
                       THEN <<sp.val>> ELSE <<>>]

\* A request arrives on goroutine g.
HandlerStart(g, req) ==
    /\ pc[g] \in {"idle", "done"}
    /\ served[g] < clients[g]
    /\ pc' = [pc EXCEPT ![g] = "readEnabled"]
    /\ r' = [r EXCEPT ![g] = req]
    /\ w' = [w EXCEPT ![g] = NoResponse]
    /\ shouldEvaluate' = [shouldEvaluate EXCEPT ![g] = FALSE]
    /\ rn' = [rn EXCEPT ![g] = 0]
    /\ branch' = [branch EXCEPT ![g] = ""]
    /\ handler' = [handler EXCEPT ![g] = <<>>]
    /\ chainNext' = [chainNext EXCEPT ![g] = <<>>]
    /\ trace' = [trace EXCEPT ![g] = <<>>]
    /\ seenEnabled' = [seenEnabled EXCEPT ![g] = {f.enabled}]
    /\ seenParticipation' = [seenParticipation EXCEPT ![g] = {f.participation}]
    /\ panicked' = [panicked EXCEPT ![g] = NoPanic]
    /\ waited' = [waited EXCEPT ![g] = <<>>]
    /\ drawn' = [drawn EXCEPT ![g] = <<>>]
    /\ since' = [since EXCEPT ![g] = Returned(setEnabled, setParticipation)]
    /\ UNCHANGED <<f, randMtx, clients, served, setVars, inj, reports, spawned, ctor, once>>

\* A handler that starts from shouldEvaluate = true.
HandlerEnabledIgnored(flt) == TRUE

\* The value the handler starts shouldEvaluate from: f.enabled.
HandlerEnabled(flt) == flt.enabled

\* shouldEvaluate = f.enabled
HandlerReadEnabled(g) ==
    /\ pc[g] = "readEnabled"
    /\ shouldEvaluate' = [shouldEvaluate EXCEPT ![g] = HandlerEnabled(f)]
    /\ pc' = [pc EXCEPT ![g] = IF HandlerEnabled(f) THEN "checkLists" ELSE "dispatch"]
    /\ UNCHANGED <<f, randMtx, clients, r, w, rn, branch, handler, chainNext, trace,
                   served, seenEnabled, seenParticipation, setVars, injVars>>

\* A handler that calls f.participate() whatever the lists said.
HandlerCheckListsThenDraw(g) ==
    /\ pc[g] = "checkLists"
    /\ shouldEvaluate' = [shouldEvaluate EXCEPT ![g] =
                            @ /\ checkAllowBlockLists(f, shouldEvaluate[g], r[g])]
    /\ pc' = [pc EXCEPT ![g] = "lock"]
    /\ UNCHANGED <<f, randMtx, clients, r, w, rn, branch, handler, chainNext, trace,
                   served, seenEnabled, seenParticipation, setVars, injVars>>

\* shouldEvaluate = shouldEvaluate && f.checkAllowBlockLists(shouldEvaluate, r)
HandlerCheckLists(g) ==
    /\ pc[g] = "checkLists"
    /\ LET ok == shouldEvaluate[g] /\ checkAllowBlockLists(f, shouldEvaluate[g], r[g])
       IN  /\ shouldEvaluate' = [shouldEvaluate EXCEPT ![g] = ok]
           /\ pc' = [pc EXCEPT ![g] = IF ok THEN "lock" ELSE "dispatch"]
    /\ UNCHANGED <<f, randMtx, clients, r, w, rn, branch, handler, chainNext, trace,
                   served, seenEnabled, seenParticipation, setVars, injVars>>

\* A participate that does not take the lock.
ParticipateNoLock(g) ==
    /\ pc[g] = "lock"
    /\ pc' = [pc EXCEPT ![g] = "draw"]
    /\ UNCHANGED <<f, randMtx, clients, reqVars, served, seenEnabled, seenParticipation,
                   setVars, injVars>>

\* participate: f.randMtx.Lock()
ParticipateLock(g) ==
    /\ pc[g] = "lock"
    /\ randMtx = NoOne
    /\ randMtx' = g
    /\ pc' = [pc EXCEPT ![g] = "draw"]
    /\ UNCHANGED <<f, clients, reqVars, served, seenEnabled, seenParticipation, setVars, injVars>>

\* participate: rn := f.randF()
ParticipateDraw(g) ==
    /\ pc[g] = "draw"
    /\ IF f.randF.fn = "Float32"
       THEN /\ f' = [f EXCEPT !.rand = RandAdvance(f.rand)]
            /\ rn' = [rn EXCEPT ![g] = Float32(RandAdvance(f.rand))]
       ELSE /\ f' = f
            /\ rn' = [rn EXCEPT ![g] = f.randF.c]
    /\ pc' = [pc EXCEPT ![g] = "unlock"]
    /\ UNCHANGED <<randMtx, clients, r, w, shouldEvaluate, branch, handler, chainNext, trace,
                   served, seenEnabled, seenParticipation, setVars, injVars>>

\* participate: f.randMtx.Unlock()
ParticipateUnlock(g) ==
    /\ pc[g] = "unlock"
    /\ randMtx' = NoOne
    /\ pc' = [pc EXCEPT ![g] = "readParticipation"]
    /\ UNCHANGED <<f, clients, reqVars, served, seenEnabled, seenParticipation, setVars, injVars>>

\* participate: the first read of f.participation, in rn < f.participation
ParticipateRead(g) ==
    /\ pc[g] = "readParticipation"
    /\ IF participateLess(rn[g], f.participation)
       THEN /\ pc' = [pc EXCEPT ![g] = "readParticipation2"]
            /\ UNCHANGED shouldEvaluate
       ELSE /\ pc' = [pc EXCEPT ![g] = "dispatch"]
            /\ shouldEvaluate' = [shouldEvaluate EXCEPT ![g] = FALSE]
    /\ UNCHANGED <<f, randMtx, clients, r, w, rn, branch, handler, chainNext, trace,
                   served, seenEnabled, seenParticipation, setVars, injVars>>

\* participate: the second read of f.participation, in f.participation <= 1.0
ParticipateRead2(g) ==
    /\ pc[g] = "readParticipation2"
    /\ shouldEvaluate' = [shouldEvaluate EXCEPT ![g] = participateInRange(f.participation)]
    /\ pc' = [pc EXCEPT ![g] = "dispatch"]
    /\ UNCHANGED <<f, randMtx, clients, r, w, rn, branch, handler, chainNext, trace,
                   served, seenEnabled, seenParticipation, setVars, injVars>>

\* The branch the handler takes on shouldEvaluate.
HandlerBranch(shouldEval) == IF shouldEval THEN "injector" ELSE "next"

\* A handler function without its else branch.
HandlerTargetNoElse(br, injector, nextHandler) ==
    IF br = "injector" THEN InjectorHandler(injector.kind, nextHandler) ELSE <<>>

\* The handler the branch serves the request with:
\* f.injector.Handler(next) or next.
HandlerTarget(br, injector, nextHandler) ==
    IF br = "injector" THEN InjectorHandler(injector.kind, nextHandler) ELSE nextHandler

\* if shouldEvaluate { f.injector.Handler(next).ServeHTTP(w, r) } else { next.ServeHTTP(w, r) }
HandlerDispatch(g) ==
    /\ pc[g] = "dispatch"
    /\ LET br == HandlerBranch(shouldEvaluate[g])
       IN  /\ branch' = [branch EXCEPT ![g] = br]
           /\ handler' = [handler EXCEPT ![g] = HandlerTarget(br, f.injector, testHandler)]
           /\ chainNext' = [chainNext EXCEPT ![g] =
                              IF br = "injector" /\ f.injector.kind = "chain"
                              THEN testHandler ELSE <<>>]
    /\ pc' = [pc EXCEPT ![g] = "serve"]
    /\ UNCHANGED <<f, randMtx, clients, r, w, shouldEvaluate, rn, trace,
                   served, seenEnabled, seenParticipation, setVars, injVars>>

\* ServeHTTP of the closure ChainInjector.Handler returned: the loop that
\* rebinds the captured next, then next.ServeHTTP(w, r).
ChainServeHTTP(g) ==
    /\ pc[g] = "serve"
    /\ handler[g] # <<>>
    /\ Head(handler[g]) = "chain"
    /\ LET composed == ChainCompose(f.injector.middlewares, chainNext[g])
       IN  /\ chainNext' = [chainNext EXCEPT ![g] = composed]
           /\ handler' = [handler EXCEPT ![g] = composed]
    /\ UNCHANGED <<f, randMtx, clients, pc, r, w, shouldEvaluate, rn, branch, trace,
                   served, seenEnabled, seenParticipation, setVars, injVars>>

\* ServeHTTP of any other frame: what it writes, then the handler it wraps
\* if it calls it.
ServeHTTP(g) ==
    /\ pc[g] = "serve"
    /\ handler[g] # <<>>
    /\ Head(handler[g]) \in TestFrames
    /\ w' = [w EXCEPT ![g] = FrameWrite(Head(handler[g]), w[g])]
    /\ trace' = [trace EXCEPT ![g] = Append(@, Head(handler[g]))]
    /\ handler' = [handler EXCEPT ![g] =
                     IF Continues(Head(handler[g])) THEN Tail(handler[g]) ELSE <<>>]
    /\ UNCHANGED <<f, randMtx, clients, pc, r, shouldEvaluate, rn, branch, chainNext,
                   served, seenEnabled, seenParticipation, setVars, injVars>>

\* The handler function returns.
HandlerReturn(g) ==
    /\ pc[g] = "serve"
    /\ handler[g] = <<>>
    /\ pc' = [pc EXCEPT ![g] = "done"]
    /\ served' = [served EXCEPT ![g] = @ + 1]
    /\ UNCHANGED <<f, randMtx, clients, reqVars, seenEnabled, seenParticipation, setVars, injVars>>

(***************************************************************************)
(* The handlers of the package's injectors.  `go i.reporter.Report(..)`    *)
(* starts a goroutine that runs whenever it is scheduled; the goroutine of *)
(* a no-op reporter has no effect and is not kept.  A panic unwinds every  *)
(* handler of the request: nothing is left to run.                         *)
(***************************************************************************)
\* What the handler function of a request does not touch while a frame runs.
frameVars == <<f, randMtx, clients, pc, r, shouldEvaluate, rn, branch, chainNext, served,
               seenEnabled, seenParticipation, setVars, ctor, since, once>>

\* go rp.Report(name, state): the goroutines started and not yet run.
Go(pending, rp, state) ==
    IF rp = "test" THEN [pending EXCEPT ![state] = @ + 1] ELSE pending

\* rp.Report(name, state) runs: testReporter appends the state.
Report(states, rp, state) == IF rp = "test" THEN Append(states, state) ELSE states

\* rp.Report(name, state) never returns: the goroutine that calls it goes no
\* further.
Blocks(rp) == rp = "blocking"

\* Every frame hands the request on.
AfterFrameAlwaysNext(frame, rest) == rest

\* No frame hands the request on.
AfterFrameNeverNext(frame, rest) == <<>>

\* What is left to run when the frame's own work is done: the handler it
\* wraps, for the frame that calls next.ServeHTTP(w, r).
AfterFrame(frame, rest) == IF frame = "slow" THEN rest ELSE <<>>

\* A RejectInjector that panics with another value.
RejectPanicOther == NilDereference

\* The value RejectInjector's handler panics with.
RejectPanic == ErrAbortHandler

\* A RandomInjector that always takes its first middleware.
RandomChoiceFirst(middlewares, randIdx) == middlewares[1]

\* i.middlewares[randIdx]
RandomChoice(middlewares, randIdx) == middlewares[randIdx + 1]

\* A goroutine started by `go i.reporter.Report(..)` runs.
ReportRun(state) ==
    /\ spawned[state] > 0
    /\ spawned' = [spawned EXCEPT ![state] = @ - 1]
    /\ reports' = Report(reports, "test", state)
    /\ UNCHANGED <<frameVars, w, handler, trace, inj, panicked, waited, drawn>>

\* ErrorInjector's handler: go i.reporter.Report(.., StateStarted)
ErrorStart(g) ==
    /\ pc[g] = "serve"
    /\ handler[g] # <<>>
    /\ Head(handler[g]) = "error"
    /\ IF inj.error.reporter = NilReporter
       THEN /\ panicked' = [panicked EXCEPT ![g] = NilDereference]
            /\ handler' = [handler EXCEPT ![g] = <<>>]
            /\ UNCHANGED spawned
       ELSE /\ spawned' = Go(spawned, inj.error.reporter, StateStarted)
            /\ handler' = [handler EXCEPT ![g] = <<"error.write">> \o Tail(@)]
            /\ UNCHANGED panicked
    /\ UNCHANGED <<frameVars, w, trace, inj, reports, waited, drawn>>

\* http.Error(w, i.statusText, i.statusCode); go i.reporter.Report(.., StateFinished)
ErrorWrite(g) ==
    /\ pc[g] = "serve"
    /\ handler[g] # <<>>
    /\ Head(handler[g]) = "error.write"
    /\ w' = [w EXCEPT ![g] = Error(@, inj.error.statusText, inj.error.statusCode)]
    /\ spawned' = Go(spawned, inj.error.reporter, StateFinished)
    /\ trace' = [trace EXCEPT ![g] = Append(@, "error")]
    /\ handler' = [handler EXCEPT ![g] = AfterFrame("error", Tail(@))]
    /\ UNCHANGED <<frameVars, inj, reports, panicked, waited, drawn>>

\* SlowInjector's handler: go i.reporter.Report(.., StateStarted), then the
\* call of i.slowF(i.duration).
SlowStart(g) ==
    /\ pc[g] = "serve"
    /\ handler[g] # <<>>
    /\ Head(handler[g]) = "slow"
    /\ IF inj.slow.reporter = NilReporter
       THEN /\ panicked' = [panicked EXCEPT ![g] = NilDereference]
            /\ handler' = [handler EXCEPT ![g] = <<>>]
            /\ UNCHANGED <<spawned, waited>>
       ELSE /\ spawned' = Go(spawned, inj.slow.reporter, StateStarted)
            /\ IF inj.slow.slowF = "nil"
               THEN /\ panicked' = [panicked EXCEPT ![g] = NilDereference]
                    /\ handler' = [handler EXCEPT ![g] = <<>>]
                    /\ UNCHANGED waited
               ELSE /\ waited' = [waited EXCEPT ![g] = Append(@, inj.slow.duration)]
                    /\ handler' = [handler EXCEPT ![g] = <<"slow.wait">> \o Tail(@)]
                    /\ UNCHANGED panicked
    /\ UNCHANGED <<frameVars, w, trace, inj, reports, drawn>>

\* i.slowF returns: go i.reporter.Report(.., StateFinished); next.ServeHTTP(w, r)
SlowFinish(g) ==
    /\ pc[g] = "serve"
    /\ handler[g] # <<>>
    /\ Head(handler[g]) = "slow.wait"
    /\ spawned' = Go(spawned, inj.slow.reporter, StateFinished)
    /\ trace' = [trace EXCEPT ![g] = Append(@, "slow")]
    /\ handler' = [handler EXCEPT ![g] = AfterFrame("slow", Tail(@))]
    /\ UNCHANGED <<frameVars, w, inj, reports, panicked, waited, drawn>>

\* RejectInjector's handler: i.reporter.Report(.., StateStarted), called in
\* the request's goroutine, then panic(http.ErrAbortHandler).  In the frame
\* "reject.report" the goroutine is inside a Report that does not return.
RejectServeHTTP(g) ==
    /\ pc[g] = "serve"
    /\ handler[g] # <<>>
    /\ Head(handler[g]) = "reject"
    /\ IF inj.reject.reporter = NilReporter
       THEN /\ panicked' = [panicked EXCEPT ![g] = NilDereference]
            /\ handler' = [handler EXCEPT ![g] = <<>>]
            /\ UNCHANGED reports
       ELSE IF Blocks(inj.reject.reporter)
       THEN /\ handler' = [handler EXCEPT ![g] = <<"reject.report">>]
            /\ UNCHANGED <<reports, panicked>>
       ELSE /\ reports' = Report(reports, inj.reject.reporter, StateStarted)
            /\ panicked' = [panicked EXCEPT ![g] = RejectPanic]
            /\ handler' = [handler EXCEPT ![g] = <<>>]
    /\ trace' = [trace EXCEPT ![g] = Append(@, "reject")]
    /\ UNCHANGED <<frameVars, w, inj, spawned, waited, drawn>>

\* The handler of a typed nil pointer: the first read of a field of *i.
NilServeHTTP(g) ==
    /\ pc[g] = "serve"
    /\ handler[g] # <<>>
    /\ Head(handler[g]) \in NilKinds
    /\ panicked' = [panicked EXCEPT ![g] = NilDereference]
    /\ handler' = [handler EXCEPT ![g] = <<>>]
    /\ UNCHANGED <<frameVars, w, trace, inj, reports, spawned, waited, drawn>>

\* RandomInjector's handler: with no middleware next.ServeHTTP(w, r), else
\* i.randMtx.Lock()
RandomLock(g) ==
    /\ pc[g] = "serve"
    /\ handler[g] # <<>>
    /\ Head(handler[g]) = "random"
    /\ IF Len(inj.random.middlewares) > 0
       THEN /\ inj.random.randMtx = NoOne
            /\ inj' = [inj EXCEPT !.random.randMtx = g]
            /\ handler' = [handler EXCEPT ![g] = <<"random.draw">> \o Tail(@)]
       ELSE /\ handler' = [handler EXCEPT ![g] = Tail(@)]
            /\ UNCHANGED inj
    /\ UNCHANGED <<frameVars, w, trace, reports, spawned, panicked, waited, drawn>>

\* A RandomInjector that draws from the generator of the Fault.
RandomDrawShared(g) ==
    /\ pc[g] = "serve"
    /\ handler[g] # <<>>
    /\ Head(handler[g]) = "random.draw"
    /\ f' = [f EXCEPT !.rand = RandAdvance(@)]
    /\ drawn' = [drawn EXCEPT ![g] =
                   Append(@, Intn(RandAdvance(f.rand), Len(inj.random.middlewares)))]
    /\ handler' = [handler EXCEPT ![g] = <<"random.unlock">> \o Tail(@)]
    /\ UNCHANGED <<randMtx, clients, pc, r, shouldEvaluate, rn, branch, chainNext, served,
                   seenEnabled, seenParticipation, setVars, ctor, since, once,
                   w, trace, inj, reports, spawned, panicked, waited>>

\* randIdx := i.randF(len(i.middlewares))
RandomDraw(g) ==
    /\ pc[g] = "serve"
    /\ handler[g] # <<>>
    /\ Head(handler[g]) = "random.draw"
    /\ IF inj.random.randF.fn = "Intn"
       THEN /\ inj' = [inj EXCEPT !.random.rand = RandAdvance(@)]
            /\ drawn' = [drawn EXCEPT ![g] =
                           Append(@, Intn(RandAdvance(inj.random.rand),
                                          Len(inj.random.middlewares)))]
       ELSE /\ drawn' = [drawn EXCEPT ![g] = Append(@, inj.random.randF.c)]
            /\ UNCHANGED inj
    /\ handler' = [handler EXCEPT ![g] = <<"random.unlock">> \o Tail(@)]
    /\ UNCHANGED <<frameVars, w, trace, reports, spawned, panicked, waited>>

\* A handler that keeps i.randMtx while the choice drawn runs.
RandomUnlockLate(g) ==
    /\ pc[g] = "serve"
    /\ handler[g] # <<>>
    /\ Head(handler[g]) = "random.unlock"
    /\ handler' = [handler EXCEPT ![g] = <<"random.serve">> \o Tail(@)]
    /\ UNCHANGED <<frameVars, w, trace, inj, reports, spawned, panicked, waited, drawn>>

\* i.randMtx.Unlock()
RandomUnlock(g) ==
    /\ pc[g] = "serve"
    /\ handler[g] # <<>>
    /\ Head(handler[g]) = "random.unlock"
    /\ inj' = [inj EXCEPT !.random.randMtx = NoOne]
    /\ handler' = [handler EXCEPT ![g] = <<"random.serve">> \o Tail(@)]
    /\ UNCHANGED <<frameVars, w, trace, reports, spawned, panicked, waited, drawn>>

\* i.middlewares[randIdx](next).ServeHTTP(w, r): the index expression
\* panics for an index outside the slice.
RandomServe(g) ==
    /\ pc[g] = "serve"
    /\ handler[g] # <<>>
    /\ Head(handler[g]) = "random.serve"
    /\ LET randIdx == drawn[g][Len(drawn[g])]
       IN  IF randIdx \in 0 .. Len(inj.random.middlewares) - 1
           THEN /\ handler' = [handler EXCEPT ![g] =
                                 InjectorHandler(RandomChoice(inj.random.middlewares, randIdx), Tail(@))]
                /\ UNCHANGED panicked
           ELSE /\ handler' = [handler EXCEPT ![g] = <<>>]
                /\ panicked' = [panicked EXCEPT ![g] = IndexOutOfRange]
    /\ UNCHANGED <<frameVars, w, trace, inj, reports, spawned, waited, drawn>>

\* The frames of the package's injectors.
InjectorServe(g) ==
    \/ ErrorStart(g)
    \/ ErrorWrite(g)
    \/ SlowStart(g)
    \/ SlowFinish(g)
    \/ RejectServeHTTP(g)
    \/ NilServeHTTP(g)
    \/ RandomLock(g)
    \/ RandomDraw(g)
    \/ RandomUnlock(g)
    \/ RandomServe(g)

(***************************************************************************)
(* Fault.SetEnabled and Fault.SetParticipation, each called from a         *)
(* goroutine of its own.  Neither takes a lock: the call applies the       *)
(* option to f, and the write of the field is the step after the call.     *)
(***************************************************************************)
\* The values a caller may pass to SetParticipation.
ParticipationInputs == (-1 .. Scale + 1) \cup {NaN}

\* The values of a field the requests being decided have seen, v included.
Seen(seen, v) == [g \in Procs |-> IF Deciding(g) THEN seen[g] \cup {v} ELSE seen[g]]

\* f.SetEnabled(b) is called.
SetEnabledCall(b) ==
    /\ setEnabled.pc = "idle"
    /\ setEnabled.calls < MaxSetCalls
    /\ setEnabled' = [setEnabled EXCEPT !.pc = "write", !.val = b, !.calls = @ + 1]
    /\ since' = [g \in Procs |-> IF Deciding(g) THEN [since[g] EXCEPT !.enabled = <<>>]
                                  ELSE since[g]]
    /\ UNCHANGED <<f, randMtx, clients, pc, reqVars, served, seenEnabled,
                   seenParticipation, setParticipation, injectorVars>>

\* enabledOption.applyFault: f.enabled = bool(o)
SetEnabledWrite ==
    /\ setEnabled.pc = "write"
    /\ f' = applyFault(WithEnabled(setEnabled.val), f).f
    /\ seenEnabled' = Seen(seenEnabled, setEnabled.val)
    /\ setEnabled' = [setEnabled EXCEPT !.pc = "idle"]
    /\ UNCHANGED <<randMtx, clients, pc, reqVars, served, seenParticipation, setParticipation, injVars>>

\* f.SetParticipation(p) is called: the range check of applyFault, which
\* returns ErrInvalidPercent without a write.
SetParticipationCall(p) ==
    /\ setParticipation.pc = "idle"
    /\ setParticipation.calls < MaxSetCalls
    /\ setParticipation' =
         [pc    |-> IF applyFault(WithParticipation(p), f).err = ErrNone THEN "write" ELSE "idle",
          val   |-> IF applyFault(WithParticipation(p), f).err = ErrNone THEN p ELSE 0,
          calls |-> setParticipation.calls + 1,
          err   |-> applyFault(WithParticipation(p), f).err]
    /\ since' = [g \in Procs |-> IF Deciding(g) THEN [since[g] EXCEPT !.participation = <<>>]
                                  ELSE since[g]]
    /\ UNCHANGED <<f, randMtx, clients, pc, reqVars, served, seenEnabled,
                   seenParticipation, setEnabled, injectorVars>>

\* participationOption.applyFault: f.participation = float32(o)
SetParticipationWrite ==
    /\ setParticipation.pc = "write"
    /\ f' = applyFault(WithParticipation(setParticipation.val), f).f
    /\ seenParticipation' = Seen(seenParticipation, setParticipation.val)
    /\ setParticipation' = [setParticipation EXCEPT !.pc = "idle"]
    /\ UNCHANGED <<randMtx, clients, pc, reqVars, served, seenEnabled, setEnabled, injVars>>

(***************************************************************************)
(* Specifications.                                                         *)
(***************************************************************************)
\* The instances of the package's injectors when none was built.
NoInstances ==
    [error  |-> ZeroErrorInjector,
     slow   |-> ZeroSlowInjector,
     reject |-> [reporter |-> NilReporter],
     random |-> ZeroRandomInjector]

\* The call of NewFault once it has returned a Fault.
Constructed == [i |-> NilInjector, opts |-> <<>>, err |-> ErrNone, called |-> TRUE]

\* No handler obtained from ChainInjector.Handler.
NoHandler == [next |-> <<>>, idx |-> [g \in Procs |-> 0], made |-> [g \in Procs |-> <<>>]]

\* The state in which the Fault is flt, the injectors built are is, NewFault
\* is at ct, the handler obtained from ChainInjector.Handler is h and each
\* goroutine g is about to send cl[g] requests, one after the other.
InitOnce(flt, cl, is, ct, h) ==
    /\ f = flt
    /\ inj = is
    /\ ctor = ct
    /\ randMtx = NoOne
    /\ clients = cl
    /\ pc = [g \in Procs |-> "idle"]
    /\ r = [g \in Procs |-> NoRequest]
    /\ w = [g \in Procs |-> NoResponse]
    /\ shouldEvaluate = [g \in Procs |-> FALSE]
    /\ rn = [g \in Procs |-> 0]
    /\ branch = [g \in Procs |-> ""]
    /\ handler = [g \in Procs |-> <<>>]
    /\ chainNext = [g \in Procs |-> <<>>]
    /\ trace = [g \in Procs |-> <<>>]
    /\ served = [g \in Procs |-> 0]
    /\ seenEnabled = [g \in Procs |-> {}]
    /\ seenParticipation = [g \in Procs |-> {}]
    /\ setEnabled = [pc |-> "idle", val |-> FALSE, calls |-> 0]
    /\ setParticipation = [pc |-> "idle", val |-> 0, calls |-> 0, err |-> ErrNone]
    /\ reports = <<>>
    /\ spawned = [s \in {StateStarted, StateFinished} |-> 0]
    /\ panicked = [g \in Procs |-> NoPanic]
    /\ waited = [g \in Procs |-> <<>>]
    /\ drawn = [g \in Procs |-> <<>>]
    /\ since = [g \in Procs |-> [enabled |-> <<>>, participation |-> <<>>]]
    /\ once = h

\* The same when no handler was obtained from ChainInjector.Handler.
InitAll(flt, cl, is, ct) == InitOnce(flt, cl, is, ct, NoHandler)

\* The state once NewFault has returned flt, around an injector of the tests.
InitWith(flt, cl) == InitAll(flt, cl, NoInstances, Constructed)

\* One goroutine sends n requests, the other none.
Sequential(n) == [g \in Procs |-> IF g = 1 THEN n ELSE 0]

\* The statements of Fault.Handler's handler function and of the handlers
\* it calls.
Serve(g, reqs) ==
    \/ \E req \in reqs : HandlerStart(g, req)
    \/ HandlerReadEnabled(g)
    \/ HandlerCheckLists(g)
    \/ ParticipateLock(g)
    \/ ParticipateDraw(g)
    \/ ParticipateUnlock(g)
    \/ ParticipateRead(g)
    \/ ParticipateRead2(g)
    \/ HandlerDispatch(g)
    \/ ServeHTTP(g)
    \/ HandlerReturn(g)

Set ==
    \/ \E b \in BOOLEAN : SetEnabledCall(b)
    \/ SetEnabledWrite
    \/ \E p \in ParticipationInputs : SetParticipationCall(p)
    \/ SetParticipationWrite

\* TestFaultConcurrentAccess: one goroutine sends requests through the
\* handler of a Fault around the no-op injector while one goroutine calls
\* SetEnabled and one calls SetParticipation.
Init ==
    \E e \in BOOLEAN, p \in 0 .. Scale :
        LET res == NewFault(Simple("noop"), <<WithEnabled(e), WithParticipation(p)>>)
        IN  res.err = ErrNone /\ InitWith(res.f, Sequential(MaxServed))

Next == (\E g \in Procs : Serve(g, {testRequest})) \/ Set

Spec == Init /\ [][Next]_vars

\* TestFaultHandler: one request to a Fault around the injector that
\* answers 500, built with any path and header lists.
InitPolicy ==
    \E e \in BOOLEAN, p \in 0 .. Scale, pb \in PathLists, pa \in PathLists,
       hb \in HeaderLists, ha \in HeaderLists :
        LET res == NewFault(Simple("500s"),
                            <<WithEnabled(e), WithParticipation(p),
                              WithPathBlocklist(pb), WithPathAllowlist(pa),
                              WithHeaderBlocklist(hb), WithHeaderAllowlist(ha)>>)
        IN  res.err = ErrNone /\ InitWith(res.f, Sequential(1))

NextPolicy == \E g \in Procs : Serve(g, Requests)

SpecPolicy == InitPolicy /\ [][NextPolicy]_vars

\* The injectors a Fault is built around: the injectors of the tests and
\* the chains of up to MaxSteps of them.
MaxSteps == 2

StepLists == UNION {[1 .. n -> {Simple(k) : k \in StepKinds}] : n \in 0 .. MaxSteps}

Injectors == {Simple(k) : k \in StepKinds} \cup {NewChainInjector(is).ci : is \in StepLists}

\* The random sources a Fault is built with: the default generator with the
\* default seed or another one, or a function that returns one value.
RandOptions ==
    {<<>>, <<WithRandSeed(2)>>} \cup {<<WithRandFloat32Func(c)>> : c \in 0 .. Scale}

\* TestChainInjectorHandler and TestFaultHandler: requests served one after
\* the other by a Fault around any injector, with any random source.
InitInject ==
    \E i \in Injectors, e \in BOOLEAN, p \in (0 .. Scale) \cup {NaN}, ro \in RandOptions,
       pa \in {<<>>, <<"/x">>} :
        LET res == NewFault(i, <<WithEnabled(e), WithParticipation(p), WithPathAllowlist(pa)>> \o ro)
        IN  res.err = ErrNone /\ InitWith(res.f, Sequential(MaxServed))

NextInject == \E g \in Procs : Serve(g, {testRequest}) \/ ChainServeHTTP(g)

SpecInject == InitInject /\ [][NextInject]_vars

(***************************************************************************)
(* Requests through a Fault around the package's injectors, alone, in a    *)
(* ChainInjector or in a RandomInjector, as the tests of the injectors     *)
(* build them: enabled, participation 1.0.                                 *)
(***************************************************************************)
\* time.Duration values.
Durations == {1, 2}

\* The steps of the chains.
ComposeStepKinds == {"slow", "error", "reject", "oneOK", "stop", "nilSlow"}

ComposeStepLists == UNION {[1 .. n -> {Simple(k) : k \in ComposeStepKinds}] : n \in 0 .. MaxSteps}

\* The choices of the RandomInjector.
ChoiceKinds == {"slow", "error", "oneOK"}

ChoiceLists == UNION {[1 .. n -> {Simple(k) : k \in ChoiceKinds}] : n \in 0 .. MaxSteps}

\* The SlowInjectors: built by NewSlowInjector, or the zero value.
SlowInjectors(rp) ==
    {NewSlowInjector(1, <<WithReporter(rp)>>).si,
     NewSlowInjector(2, <<WithSlowFunc("custom"), WithReporter(rp)>>).si,
     ZeroSlowInjector}

\* The ErrorInjectors: built by NewErrorInjector, or the zero value.
ErrorInjectors(rp) ==
    {NewErrorInjector(StatusInternalServerError, <<WithReporter(rp)>>).ei,
     NewErrorInjector(StatusTeapot, <<WithStatusText("custom"), WithReporter(rp)>>).ei,
     ZeroErrorInjector}

\* The random sources of a RandomInjector: the default generator with the
\* default seed or another one, or a function that returns one value.
RandIntOptions ==
    {<<>>, <<WithRandSeed(2)>>} \cup {<<WithRandIntFunc(c)>> : c \in -1 .. MaxSteps}

\* The kinds of the steps or choices of an injector.
KindsIn(i, choices) ==
    {i.kind} \cup Range(i.middlewares)
             \cup (IF i.kind = "random" THEN {choices[k].kind : k \in DOMAIN choices} ELSE {})

\* A Fault around one injector or a chain, with the instances the injector
\* uses; an instance it does not use is the first of its set.
InitChain ==
    \E i \in {Simple(k) : k \in {"error", "slow", "reject"} \cup NilKinds}
             \cup {NewChainInjector(is).ci : is \in ComposeStepLists},
       rp \in Reporters :
      \E si \in SlowInjectors(rp), ei \in ErrorInjectors(rp) :
        LET res == NewFault(i, <<WithEnabled(TRUE), WithParticipation(Scale)>>)
        IN  /\ res.err = ErrNone
            /\ "slow" \in KindsIn(i, <<>>) \/ si = NewSlowInjector(1, <<WithReporter(rp)>>).si
            /\ "error" \in KindsIn(i, <<>>)
                 \/ ei = NewErrorInjector(StatusInternalServerError, <<WithReporter(rp)>>).ei
            /\ InitAll(res.f,
                       IF rp = "test" THEN Sequential(1) ELSE Sequential(MaxServed),
                       [error  |-> ei,
                        slow   |-> si,
                        reject |-> NewRejectInjector(<<WithReporter(rp)>>).ri,
                        random |-> ZeroRandomInjector],
                       Constructed)

\* A Fault around a RandomInjector, built by NewRandomInjector or the zero
\* value.
InitRandom ==
    \E choices \in ChoiceLists, ro \in RandIntOptions, zero \in BOOLEAN :
        LET res == NewFault(Simple("random"), <<WithEnabled(TRUE), WithParticipation(Scale)>>)
            rnd == NewRandomInjector(choices, ro)
        IN  /\ res.err = ErrNone
            /\ rnd.err = ErrNone
            /\ zero => (choices = <<>> /\ ro = <<>>)
            /\ InitAll(res.f, Sequential(MaxServed),
                       [error  |-> NewErrorInjector(StatusInternalServerError, <<>>).ei,
                        slow   |-> NewSlowInjector(1, <<>>).si,
                        reject |-> NewRejectInjector(<<>>).ri,
                        random |-> IF zero THEN ZeroRandomInjector ELSE rnd.ri],
                       Constructed)

InitCompose == InitChain \/ InitRandom

NextCompose ==
    \/ \E g \in Procs : Serve(g, {testRequest}) \/ ChainServeHTTP(g) \/ InjectorServe(g)
    \/ \E s \in {StateStarted, StateFinished} : ReportRun(s)

SpecCompose == InitCompose /\ [][NextCompose]_vars

(***************************************************************************)
(* NewFault called with any injector and any list of options, and a        *)
(* request through the Fault it returns.                                   *)
(***************************************************************************)
MaxOpts == 2

\* The options of the calls.
ConstructOptions ==
    {WithEnabled(b) : b \in BOOLEAN}
      \cup {WithParticipation(p) : p \in ParticipationInputs}
      \cup {WithRandSeed(s) : s \in {defaultRandSeed, 2}}
      \cup {withError}

OptionLists == UNION {[1 .. n -> ConstructOptions] : n \in 0 .. MaxOpts}

InitConstruct ==
    \E i \in {NilInjector, Simple("noop"), Simple("500s")}, opts \in OptionLists :
        InitAll(NilFault, Sequential(MaxServed), NoInstances,
                [i |-> i, opts |-> opts, err |-> ErrNone, called |-> FALSE])

\* f, err := NewFault(i, opts...)
NewFaultCall ==
    /\ ~ctor.called
    /\ f' = NewFault(ctor.i, ctor.opts).f
    /\ ctor' = [ctor EXCEPT !.err = NewFault(ctor.i, ctor.opts).err, !.called = TRUE]
    /\ UNCHANGED <<randMtx, clients, pc, reqVars, served, seenEnabled, seenParticipation,
                   setVars, inj, reports, spawned, panicked, waited, drawn, since, once>>

NextConstruct ==
    \/ NewFaultCall
    \/ ctor.called /\ ctor.err = ErrNone /\ \E g \in Procs : Serve(g, {testRequest})

SpecConstruct == InitConstruct /\ [][NextConstruct]_vars

(***************************************************************************)
(* Concurrent requests through a Fault around a SlowInjector, an           *)
(* ErrorInjector or a RejectInjector whose Reporter is the no-op one or    *)
(* one whose Report never returns.  Each goroutine that can take a step    *)
(* eventually takes one.                                                   *)
(***************************************************************************)
\* The reporters of the injectors.
ReportingReporters == {"noop", "blocking"}

InitReport ==
    \E k \in {"slow", "error", "reject"}, rp \in ReportingReporters, d \in Durations :
        LET res == NewFault(Simple(k), <<WithEnabled(TRUE), WithParticipation(Scale)>>)
        IN  /\ res.err = ErrNone
            /\ k # "slow" => d = 1
            /\ InitAll(res.f, [g \in Procs |-> 1],
                       [error  |-> NewErrorInjector(StatusInternalServerError,
                                                    <<WithReporter(rp)>>).ei,
                        slow   |-> NewSlowInjector(d, <<WithReporter(rp)>>).si,
                        reject |-> NewRejectInjector(<<WithReporter(rp)>>).ri,
                        random |-> ZeroRandomInjector],
                       Constructed)

\* A step of the request of goroutine g.
ReportStep(g) ==
    \/ Serve(g, {testRequest})
    \/ ErrorStart(g)
    \/ ErrorWrite(g)
    \/ SlowStart(g)
    \/ SlowFinish(g)
    \/ RejectServeHTTP(g)

NextReport == \E g \in Procs : ReportStep(g)

SpecReport == InitReport /\ [][NextReport]_vars /\ \A g \in Procs : WF_vars(ReportStep(g))

(***************************************************************************)
(* NewChainInjector or NewRandomInjector called with any list of           *)
(* injectors, then NewFault around the injector built and requests through *)
(* the Fault, as the tests of the two constructors and of their handlers   *)
(* do.  A slice is nil or holds its elements; ranging over a nil slice     *)
(* visits nothing.                                                         *)
(***************************************************************************)
NilSlice == [nil |-> TRUE, elems |-> <<>>]

Slice(s) == [nil |-> FALSE, elems |-> s]

\* The injectors of the lists: nil, an injector of the tests, the package's
\* injectors and a nil *SlowInjector.
BuildEntries ==
    {NilInjector} \cup {Simple(k) : k \in {"oneOK", "error", "slow", "reject", "nilSlow"}}

BuildLists ==
    {NilSlice} \cup {Slice(s) : s \in UNION {[1 .. n -> BuildEntries] : n \in 0 .. MaxSteps}}

\* The options given to NewRandomInjector.
BuildOptions == {<<>>, <<WithRandSeed(2)>>, <<WithRandIntFunc(0)>>, <<withError>>}

\* The codes and the options given to NewErrorInjector.
ErrorCodes == {-1, 0, 120000, StatusTeapot, StatusInternalServerError}

ErrorOptions ==
    {<<>>, <<withError>>}
      \cup {<<WithStatusText(t)>> : t \in {"custom", "", placeholderStatusText}}

Constructors == {"NewChainInjector", "NewRandomInjector", "NewErrorInjector"}

InitBuild ==
    \E fn \in Constructors, is \in BuildLists, iopts \in BuildOptions \cup ErrorOptions,
       p \in {1, Scale}, code \in ErrorCodes :
        /\ fn = "NewChainInjector" => (iopts = <<>> /\ code = 0)
        /\ fn = "NewRandomInjector" => (iopts \in BuildOptions /\ code = 0)
        /\ fn = "NewErrorInjector" => (iopts \in ErrorOptions /\ is = NilSlice /\ p = Scale)
        /\ InitAll(NilFault, Sequential(MaxServed),
                   [error  |-> NewErrorInjector(StatusInternalServerError, <<>>).ei,
                    slow   |-> NewSlowInjector(1, <<>>).si,
                    reject |-> NewRejectInjector(<<>>).ri,
                    random |-> ZeroRandomInjector],
                   [fn |-> fn, is |-> is, iopts |-> iopts, code |-> code, built |-> FALSE,
                    ierr |-> ErrNone, panic |-> FALSE,
                    i |-> NilInjector, opts |-> <<WithEnabled(TRUE), WithParticipation(p)>>,
                    err |-> ErrNone, called |-> FALSE])

\* ci, err := NewChainInjector(is)
NewChainInjectorCall ==
    /\ ~ctor.built
    /\ ctor.fn = "NewChainInjector"
    /\ LET res == NewChainInjector(ctor.is.elems)
       IN  ctor' = [ctor EXCEPT !.built = TRUE, !.ierr = res.err, !.i = res.ci]
    /\ UNCHANGED <<f, randMtx, clients, pc, reqVars, served, seenEnabled, seenParticipation,
                   setVars, inj, reports, spawned, panicked, waited, drawn, since, once>>

\* ri, err := NewRandomInjector(is, opts...)
NewRandomInjectorCall ==
    /\ ~ctor.built
    /\ ctor.fn = "NewRandomInjector"
    /\ LET res == NewRandomInjector(ctor.is.elems, ctor.iopts)
           ok  == res.err = ErrNone /\ ~res.panic
       IN  /\ ctor' = [ctor EXCEPT !.built = TRUE, !.ierr = res.err, !.panic = res.panic,
                                   !.i = IF ok THEN Simple("random") ELSE NilInjector]
           /\ inj' = [inj EXCEPT !.random = IF ok THEN res.ri ELSE @]
    /\ UNCHANGED <<f, randMtx, clients, pc, reqVars, served, seenEnabled, seenParticipation,
                   setVars, reports, spawned, panicked, waited, drawn, since, once>>

\* ei, err := NewErrorInjector(code, opts...)
NewErrorInjectorCall ==
    /\ ~ctor.built
    /\ ctor.fn = "NewErrorInjector"
    /\ LET res == NewErrorInjector(ctor.code, ctor.iopts)
           ok  == res.err = ErrNone
       IN  /\ ctor' = [ctor EXCEPT !.built = TRUE, !.ierr = res.err,
                                   !.i = IF ok THEN Simple("error") ELSE NilInjector]
           /\ inj' = [inj EXCEPT !.error = IF ok THEN res.ei ELSE @]
    /\ UNCHANGED <<f, randMtx, clients, pc, reqVars, served, seenEnabled, seenParticipation,
                   setVars, reports, spawned, panicked, waited, drawn, since, once>>

NextBuild ==
    \/ NewChainInjectorCall
    \/ NewRandomInjectorCall
    \/ NewErrorInjectorCall
    \/ ctor.built /\ ctor.ierr = ErrNone /\ ~ctor.panic /\ NewFaultCall
    \/ /\ ctor.called
       /\ ctor.err = ErrNone
       /\ \E g \in Procs : Serve(g, {testRequest}) \/ ChainServeHTTP(g) \/ InjectorServe(g)

SpecBuild == InitBuild /\ [][NextBuild]_vars

(***************************************************************************)
(* A handler obtained once from ChainInjector.Handler(testHandler) and     *)
(* served requests directly, one after the other or from two goroutines at *)
(* once.  There is one closure, so one captured variable next for every    *)
(* request.  The statement  next = i.middlewares[idx](next)  reads next,   *)
(* calls the middleware and writes next: another goroutine may run between *)
(* the read and the write.                                                 *)
(***************************************************************************)
\* The handler ChainInjector.Handler(next) returns: the closure around next.
ChainHandler(next) == [NoHandler EXCEPT !.next = next]

InitHandler ==
    \E is \in StepLists, cl \in {Sequential(MaxServed), [g \in Procs |-> 1]} :
        LET ci  == NewChainInjector(is).ci
            res == NewFault(ci, <<>>)
        IN  /\ res.err = ErrNone
            /\ InitOnce(res.f, cl, NoInstances, Constructed, ChainHandler(testHandler))

\* A request arrives at the handler on goroutine g: idx := len(i.middlewares) - 1.
ClosureStart(g) ==
    /\ pc[g] \in {"idle", "done"}
    /\ served[g] < clients[g]
    /\ pc' = [pc EXCEPT ![g] = "serve"]
    /\ r' = [r EXCEPT ![g] = testRequest]
    /\ w' = [w EXCEPT ![g] = NoResponse]
    /\ trace' = [trace EXCEPT ![g] = <<>>]
    /\ handler' = [handler EXCEPT ![g] = <<"closure.loop">>]
    /\ once' = [once EXCEPT !.idx[g] = Len(f.injector.middlewares), !.made[g] = <<>>]
    /\ UNCHANGED <<f, randMtx, clients, shouldEvaluate, rn, branch, chainNext, served,
                   seenEnabled, seenParticipation, setVars, inj, reports, spawned,
                   panicked, waited, drawn, ctor, since>>

\* i.middlewares[idx](next): the read of next and the call of the middleware.
ClosureWrap(g) ==
    /\ pc[g] = "serve"
    /\ handler[g] = <<"closure.loop">>
    /\ once.idx[g] > 0
    /\ once' = [once EXCEPT !.made[g] =
                  InjectorHandler(f.injector.middlewares[once.idx[g]], once.next)]
    /\ handler' = [handler EXCEPT ![g] = <<"closure.assign">>]
    /\ UNCHANGED <<f, randMtx, clients, pc, r, w, shouldEvaluate, rn, branch, chainNext,
                   trace, served, seenEnabled, seenParticipation, setVars, inj, reports,
                   spawned, panicked, waited, drawn, ctor, since>>

\* next = ..; idx--: the write of next.
ClosureAssign(g) ==
    /\ pc[g] = "serve"
    /\ handler[g] = <<"closure.assign">>
    /\ once' = [once EXCEPT !.next = once.made[g], !.idx[g] = @ - 1, !.made[g] = <<>>]
    /\ handler' = [handler EXCEPT ![g] = <<"closure.loop">>]
    /\ UNCHANGED <<f, randMtx, clients, pc, r, w, shouldEvaluate, rn, branch, chainNext,
                   trace, served, seenEnabled, seenParticipation, setVars, inj, reports,
                   spawned, panicked, waited, drawn, ctor, since>>

\* next.ServeHTTP(w, r): the read of next when the loop is over.
ClosureCall(g) ==
    /\ pc[g] = "serve"
    /\ handler[g] = <<"closure.loop">>
    /\ once.idx[g] = 0
    /\ handler' = [handler EXCEPT ![g] = once.next]
    /\ UNCHANGED <<f, randMtx, clients, pc, r, w, shouldEvaluate, rn, branch, chainNext,
                   trace, served, seenEnabled, seenParticipation, setVars, injVars>>

NextHandler ==
    \E g \in Procs :
        \/ ClosureStart(g)
        \/ ClosureWrap(g)
        \/ ClosureAssign(g)
        \/ ClosureCall(g)
        \/ ServeHTTP(g)
        \/ HandlerReturn(g)

SpecHandler == InitHandler /\ [][NextHandler]_vars

(***************************************************************************)
(* Concurrent requests through a Fault around a RandomInjector whose       *)
(* choices wait, abort or answer, each of the two with its own generator   *)
(* or a function supplied by the caller.  Every goroutine that can take a  *)
(* step eventually takes one, and a goroutine waiting for a mutex that is  *)
(* released again and again eventually gets it (sync.Mutex hands a lock    *)
(* over to a starving waiter); i.slowF may never return.  One goroutine   *)
(* sends one request, the other several, one after the other.              *)
(***************************************************************************)
\* The choices of the RandomInjector.
LockChoiceKinds == {"slow", "reject", "oneOK"}

LockChoiceLists == UNION {[1 .. n -> {Simple(k) : k \in LockChoiceKinds}] : n \in 1 .. MaxSteps}

InitLock ==
    \E choices \in LockChoiceLists,
       fo \in {<<>>, <<WithRandFloat32Func(0)>>},
       ro \in {<<>>, <<WithRandIntFunc(0)>>} :
        LET res == NewFault(Simple("random"),
                            <<WithEnabled(TRUE), WithParticipation(Scale)>> \o fo)
            rnd == NewRandomInjector(choices, ro)
        IN  /\ res.err = ErrNone
            /\ rnd.err = ErrNone
            /\ InitAll(res.f, [g \in Procs |-> IF g = 1 THEN 1 ELSE MaxServed],
                       [error  |-> NewErrorInjector(StatusInternalServerError, <<>>).ei,
                        slow   |-> NewSlowInjector(1, <<>>).si,
                        reject |-> NewRejectInjector(<<>>).ri,
                        random |-> rnd.ri],
                       Constructed)

\* A step of the request of goroutine g, the return of i.slowF excepted.
LockStep(g) ==
    \/ Serve(g, {testRequest})
    \/ RandomLock(g)
    \/ RandomDraw(g)
    \/ RandomUnlock(g)
    \/ RandomServe(g)
    \/ SlowStart(g)
    \/ RejectServeHTTP(g)

NextLock == \E g \in Procs : LockStep(g) \/ SlowFinish(g)

SpecLock ==
    /\ InitLock
    /\ [][NextLock]_vars
    /\ \A g \in Procs : /\ WF_vars(LockStep(g))
                        /\ SF_vars(ParticipateLock(g))
                        /\ SF_vars(RandomLock(g))



(***************************************************************************)
(* Vocabulary of the properties.                                           *)
(***************************************************************************)
\* The request carries header k with value v.
Carries(h, k, v) == CanonicalHeaderKey(k) \in DOMAIN h /\ h[CanonicalHeaderKey(k)] = v

\* A pair of the header blocklist equals a header of the request.
BlocklistMatch(flt, req) ==
    \E k \in DOMAIN flt.headerBlocklist : Carries(req.header, k, flt.headerBlocklist[k])

\* A pair of the header allowlist equals a header of the request.
AllowlistMatch(flt, req) ==
    \E k \in DOMAIN flt.headerAllowlist : Carries(req.header, k, flt.headerAllowlist[k])

\* The path policy lets the request through.
PathEligible(flt, req) ==
    /\ req.path \notin flt.pathBlocklist
    /\ flt.pathAllowlist = {} \/ req.path \in flt.pathAllowlist

\* The request was admitted: the handler took the injector's branch.
Admitted(g) == branch[g] = "injector"

\* The request went to next untouched: the handler took the other branch
\* and only the terminal handler ran and wrote.
PassedToNext(g) ==
    /\ branch[g] = "next"
    /\ trace[g] = <<"testHandler">>
    /\ w[g] = [code |-> StatusAccepted, body |-> <<"Accepted">>]

\* The injector ran: a frame other than the terminal handler's ran.
InjectorRan(g) == \E i \in DOMAIN trace[g] : trace[g][i] # "testHandler"

\* The response that the frames of a trace write, replayed from nothing.
RECURSIVE Replay(_, _)
Replay(tr, resp) == IF tr = <<>> THEN resp ELSE Replay(Tail(tr), FrameWrite(Head(tr), resp))

\* The frames of a handler that run: up to the first that does not call
\* the handler it wraps.
RECURSIVE FramesRun(_)
FramesRun(h) ==
    IF h = <<>> THEN <<>>
    ELSE IF Continues(Head(h)) THEN <<Head(h)>> \o FramesRun(Tail(h)) ELSE <<Head(h)>>

(***************************************************************************)
(* C1.  SetEnabled and SetParticipation called while a request is in       *)
(* flight never race with it: no write of f.enabled or f.participation is  *)
(* concurrent with an unsynchronised read of the same field.  Two accesses *)
(* are concurrent when each is the next step of its goroutine and no lock  *)
(* orders them.                                                            *)
(***************************************************************************)
RaceOnEnabled == setEnabled.pc = "write" /\ \E g \in Procs : pc[g] = "readEnabled"

RaceOnParticipation ==
    /\ setParticipation.pc = "write"
    /\ \E g \in Procs : pc[g] \in {"readParticipation", "readParticipation2"}

C1_NoDataRace == ~RaceOnEnabled /\ ~RaceOnParticipation

(***************************************************************************)
(* C2.  A request decided while SetEnabled or SetParticipation runs is     *)
(* admitted only if some value f.enabled held during the decision is true  *)
(* and some value f.participation held during the decision exceeds the     *)
(* draw: it is decided on the old or the new value of each field, never on *)
(* a value the field did not hold.                                         *)
(***************************************************************************)
C2_OldOrNewValue ==
    \A g \in Procs :
        Admitted(g) =>
            /\ TRUE \in seenEnabled[g]
            /\ \E p \in seenParticipation[g] : FLt(rn[g], p) /\ FLe(p, Scale)

\* A request was admitted although both fields were written during its decision.
C2_Witness ==
    \E g \in Procs :
        /\ Admitted(g)
        /\ Cardinality(seenEnabled[g]) > 1
        /\ Cardinality(seenParticipation[g]) > 1

(***************************************************************************)
(* C3.  With a non-empty header allowlist, a request that carries a header *)
(* equal to ANY one pair of the allowlist, on an eligible path and with no *)
(* blocklist pair matching, is admitted by an enabled Fault at             *)
(* participation 1.0, whatever the other pairs of the allowlist are.       *)
(***************************************************************************)
C3_AllowlistAnyPair ==
    \A g \in Procs :
        ( /\ pc[g] = "done"
          /\ f.enabled
          /\ f.participation = Scale
          /\ PathEligible(f, r[g])
          /\ \A k \in DOMAIN f.headerBlocklist :
                 HeaderGet(r[g].header, k) # f.headerBlocklist[k]
          /\ AllowlistMatch(f, r[g]) )
        => Admitted(g)

(***************************************************************************)
(* C4.  A request that carries a header equal to any pair of the header    *)
(* blocklist is never admitted, whatever the participation, the path lists *)
(* and the header allowlist are.                                           *)
(***************************************************************************)
C4_HeaderBlocklist ==
    \A g \in Procs :
        (pc[g] # "idle" /\ BlocklistMatch(f, r[g])) => (~Admitted(g) /\ ~InjectorRan(g))

\* A request whose header is in both header lists went to next at participation 1.0.
C4_Witness ==
    \E g \in Procs :
        /\ pc[g] = "done"
        /\ f.enabled /\ f.participation = Scale /\ PathEligible(f, r[g])
        /\ BlocklistMatch(f, r[g])
        /\ \A k \in DOMAIN f.headerAllowlist : Carries(r[g].header, k, f.headerAllowlist[k])
        /\ DOMAIN f.headerAllowlist # {}
        /\ PassedToNext(g)

(***************************************************************************)
(* C5.  A request whose path is in the path blocklist is never admitted:   *)
(* the injector does not run and next is invoked, whatever the             *)
(* participation is and also when the path is in the path allowlist.       *)
(***************************************************************************)
C5_PathBlocklist ==
    \A g \in Procs :
        (pc[g] # "idle" /\ r[g].path \in f.pathBlocklist) =>
            /\ ~Admitted(g)
            /\ ~InjectorRan(g)
            /\ pc[g] = "done" => PassedToNext(g)

\* A request whose path is in both path lists went to next at participation 1.0.
C5_Witness ==
    \E g \in Procs :
        /\ pc[g] = "done"
        /\ f.enabled /\ f.participation = Scale
        /\ r[g].path \in f.pathBlocklist \cap f.pathAllowlist
        /\ PassedToNext(g)

(***************************************************************************)
(* C6.  With a non-empty path allowlist a request whose path is not in it  *)
(* is never admitted, even at participation 1.0; with an empty or unset    *)
(* path allowlist every path outside the blocklist is eligible: an enabled *)
(* Fault at participation 1.0 without header lists admits it.              *)
(***************************************************************************)
C6_PathAllowlist ==
    \A g \in Procs :
        /\ (pc[g] # "idle" /\ f.pathAllowlist # {} /\ r[g].path \notin f.pathAllowlist)
           => (~Admitted(g) /\ ~InjectorRan(g))
        /\ ( /\ pc[g] = "done"
             /\ f.enabled /\ f.participation = Scale
             /\ f.pathAllowlist = {} /\ r[g].path \notin f.pathBlocklist
             /\ DOMAIN f.headerBlocklist = {} /\ DOMAIN f.headerAllowlist = {} )
           => Admitted(g)

\* A request outside a non-empty path allowlist went to next at participation 1.0.
C6_Witness ==
    \E g \in Procs :
        /\ pc[g] = "done"
        /\ f.enabled /\ f.participation = Scale
        /\ f.pathAllowlist # {} /\ r[g].path \notin f.pathAllowlist
        /\ r[g].path \notin f.pathBlocklist
        /\ DOMAIN f.headerBlocklist = {} /\ DOMAIN f.headerAllowlist = {}
        /\ PassedToNext(g)

(***************************************************************************)
(* C7.  While enabled is false every request goes to next unchanged and    *)
(* the injector never runs, whatever the participation and the lists are:  *)
(* the handler reads neither the lists nor the random source.              *)
(***************************************************************************)
C7_Disabled ==
    \A g \in Procs :
        (~f.enabled /\ pc[g] # "idle") =>
            /\ ~Admitted(g)
            /\ ~InjectorRan(g)
            /\ pc[g] \in {"readEnabled", "dispatch", "serve", "done"}
            /\ f.rand = NewSource(f.randSeed)
            /\ pc[g] = "done" => PassedToNext(g)

\* A request that the allowlists match went to next because the Fault is disabled.
C7_Witness ==
    \E g \in Procs :
        /\ pc[g] = "done"
        /\ ~f.enabled /\ f.participation = Scale
        /\ f.pathAllowlist # {} /\ PathEligible(f, r[g])
        /\ DOMAIN f.headerAllowlist # {}
        /\ \A k \in DOMAIN f.headerAllowlist : Carries(r[g].header, k, f.headerAllowlist[k])
        /\ ~BlocklistMatch(f, r[g])
        /\ PassedToNext(g)

(***************************************************************************)
(* C8.  For a request the policy lets through (the Fault is enabled and    *)
(* the lists pass it) the Fault admits exactly when the draw r satisfies   *)
(* r < participation: never at participation 0.0, always at participation  *)
(* 1.0 for a draw in [0,1), and not for a draw of 1.0 at participation 1.0.*)
(***************************************************************************)
PolicyEligible(g) == f.enabled /\ checkAllowBlockLists(f, TRUE, r[g])

C8_StrictLess ==
    \A g \in Procs :
        (pc[g] \in {"serve", "done"} /\ PolicyEligible(g)) =>
            /\ Admitted(g) <=> (rn[g] # NaN /\ f.participation # NaN /\ rn[g] < f.participation)
            /\ f.participation = 0 => ~Admitted(g)
            /\ (f.participation = Scale /\ rn[g] \in 0 .. Scale - 1) => Admitted(g)
            /\ (f.participation = Scale /\ rn[g] = Scale) => ~Admitted(g)
            /\ f.randF.fn = "Float32" => rn[g] \in 0 .. Scale - 1

\* A draw of 1.0 at participation 1.0 sent an eligible request to next.
C8_Witness ==
    \E g \in Procs :
        /\ pc[g] = "done"
        /\ PolicyEligible(g)
        /\ f.participation = Scale
        /\ rn[g] = Scale
        /\ PassedToNext(g)

(***************************************************************************)
(* C9.  For every request the Fault's handler does exactly one of two      *)
(* things: admitted, it serves the request with injector.Handler(next);    *)
(* not admitted, it serves it with next.  It never does both or neither,   *)
(* it passes the request on as it got it, and it writes nothing itself:    *)
(* the response is what the frames that ran wrote.                         *)
(***************************************************************************)
\* The handler injector.Handler(testHandler) is, the chain's closure unfolded.
Delegate(injector) ==
    IF injector.kind = "chain"
    THEN ChainCompose(injector.middlewares, testHandler)
    ELSE InjectorHandler(injector.kind, testHandler)

C9_ExactlyOne ==
    \A g \in Procs :
        /\ pc[g] \in {"serve", "done"} => branch[g] \in {"injector", "next"}
        /\ pc[g] \in {"readEnabled", "checkLists", "lock", "draw", "unlock",
                      "readParticipation", "readParticipation2", "dispatch"}
           => (w[g] = NoResponse /\ trace[g] = <<>>)
        /\ pc[g] = "done" =>
              /\ branch[g] = "injector" => trace[g] = FramesRun(Delegate(f.injector))
              /\ branch[g] = "next" => trace[g] = <<"testHandler">>
              /\ w[g] = Replay(trace[g], NoResponse)
              /\ r[g] = testRequest

\* An admitted request to a Fault around the no-op injector reached next,
\* and only next.
C9_Witness ==
    \E g \in Procs :
        /\ pc[g] = "done"
        /\ Admitted(g)
        /\ f.injector.kind = "noop"
        /\ trace[g] = <<"testHandler">>
        /\ w[g].code = StatusAccepted

(***************************************************************************)
(* C10.  For a ChainInjector whose steps s1..sn all continue, every        *)
(* request admitted through a Fault around the chain runs the steps'       *)
(* effects in the order s1, .., sn and then reaches the terminal handler   *)
(* exactly once: the first request and every later one.                    *)
(***************************************************************************)
ContinuingKinds == {"noop", "oneOK", "twoTeapot"}

\* The steps that have an effect of their own, in the order of the chain.
IsEffect(k) == k # "noop"

StepEffects(middlewares) == SelectSeq(middlewares, IsEffect)

\* What each effect writes to the body.
BodyOf(k) == IF k = "oneOK" THEN "one" ELSE "two"

C10_ChainOrder ==
    \A g \in Procs :
        ( /\ pc[g] = "done"
          /\ Admitted(g)
          /\ f.injector.kind = "chain"
          /\ \A i \in DOMAIN f.injector.middlewares :
                 f.injector.middlewares[i] \in ContinuingKinds )
        => LET eff == StepEffects(f.injector.middlewares)
           IN  /\ trace[g] = eff \o <<"testHandler">>
               /\ w[g].body = [i \in DOMAIN eff |-> BodyOf(eff[i])] \o <<"Accepted">>

\* The second request through a Fault around Chain[oneOK, twoTeapot] ran
\* one, two and then the terminal handler.
C10_Witness ==
    \E g \in Procs :
        /\ pc[g] = "done"
        /\ served[g] = 2
        /\ Admitted(g)
        /\ f.injector = NewChainInjector(<<Simple("oneOK"), Simple("twoTeapot")>>).ci
        /\ trace[g] = <<"oneOK", "twoTeapot", "testHandler">>
        /\ w[g] = [code |-> StatusOK, body |-> <<"one", "two", "Accepted">>]

(***************************************************************************)
(* Vocabulary of the properties of the package's injectors.                *)
(***************************************************************************)
\* A sequence without its last element.
Front(s) == SubSeq(s, 1, Len(s) - 1)

\* The request is over: the handler function returned or panicked.
Done(g) == pc[g] = "done"

\* The step does not call the handler passed to it: by what it is, or
\* because it panics first.
Halts(k) ==
    \/ k \in {"error", "reject", "stop", "500s"} \cup NilKinds
    \/ k = "slow" /\ inj.slow = ZeroSlowInjector

\* The steps of the chain up to its first step that halts, all of it if
\* none does.
RECURSIVE UpToHalt(_)
UpToHalt(m) ==
    IF m = <<>> THEN <<>>
    ELSE IF Halts(Head(m)) THEN <<Head(m)>> ELSE <<Head(m)>> \o UpToHalt(Tail(m))

(***************************************************************************)
(* C11.  If step sk of a ChainInjector does not call the handler passed to *)
(* it, then for that request the steps before it have run in order, no     *)
(* step after it runs and the terminal handler is never invoked; for       *)
(* Chain[Slow, Error] the wait happens, the error's status is written and  *)
(* next is never called.                                                   *)
(***************************************************************************)
C11_ChainHalts ==
    \A g \in Procs :
        ( /\ Done(g)
          /\ f.injector.kind = "chain"
          /\ \E k \in DOMAIN f.injector.middlewares : Halts(f.injector.middlewares[k]) )
        => LET m    == f.injector.middlewares
               ran  == UpToHalt(m)
           IN  /\ Front(ran) = SubSeq(trace[g], 1, Len(ran) - 1)
               /\ Len(trace[g]) <= Len(ran)
               /\ Len(trace[g]) = Len(ran) => trace[g] = ran
               /\ "testHandler" \notin Range(trace[g])
               /\ ( /\ m = <<"slow", "error">>
                    /\ inj.slow # ZeroSlowInjector
                    /\ inj.error # ZeroErrorInjector ) =>
                     /\ waited[g] = <<inj.slow.duration>>
                     /\ w[g].code = inj.error.statusCode
                     /\ trace[g] = <<"slow", "error">>

\* A request through Chain[Slow, Error(500)] waited, got status 500 and
\* did not reach next.
C11_Witness ==
    \E g \in Procs :
        /\ Done(g)
        /\ f.injector = NewChainInjector(<<Simple("slow"), Simple("error")>>).ci
        /\ waited[g] = <<1>>
        /\ w[g] = [code |-> StatusInternalServerError, body |-> <<"Internal Server Error">>]
        /\ trace[g] = <<"slow", "error">>

(***************************************************************************)
(* C12.  A RandomInjector with n >= 1 choices makes exactly one index draw *)
(* for each request and runs exactly the choice drawn, choices[idx], and   *)
(* no other; the draw is made when the request is served, not when         *)
(* Handler(next) is called.                                                *)
(***************************************************************************)
\* The generator's state after k draws.
RECURSIVE RandAfter(_, _)
RandAfter(k, state) == IF k = 0 THEN state ELSE RandAfter(k - 1, RandAdvance(state))

\* The draws a goroutine's requests have made so far.
DrawsOf(g) == IF Done(g) \/ drawn[g] = <<>> THEN served[g] ELSE served[g] + 1

C12_OneDrawOneChoice ==
    \A g \in Procs :
        (f.injector.kind = "random" /\ Len(inj.random.middlewares) >= 1) =>
            LET n == Len(inj.random.middlewares)
            IN  /\ Len(drawn[g]) <= 1
                /\ (pc[g] \notin {"serve", "done"} \/ (handler[g] # <<>> /\ Head(handler[g]) = "random"))
                      => drawn[g] = <<>>
                /\ inj.random.randF.fn = "Intn" =>
                      inj.random.rand = RandAfter(DrawsOf(1) + DrawsOf(2),
                                                  NewSource(inj.random.randSeed))
                /\ Done(g) =>
                      /\ Len(drawn[g]) = 1
                      /\ drawn[g][1] \in 0 .. n - 1 =>
                            /\ trace[g][1] = inj.random.middlewares[drawn[g][1] + 1]
                            /\ Len(SelectSeq(trace[g], LAMBDA fr : fr # "testHandler")) = 1

\* The second request through Random[Slow, Error] drew index 1 and ran the
\* ErrorInjector only.
C12_Witness ==
    \E g \in Procs :
        /\ Done(g)
        /\ served[g] = 2
        /\ f.injector.kind = "random"
        /\ inj.random.middlewares = <<"slow", "error">>
        /\ drawn[g] = <<1>>
        /\ trace[g] = <<"error">>

(***************************************************************************)
(* C13.  RejectInjector reports both StateStarted and StateFinished to its *)
(* Reporter for every request, StateFinished before the panic with         *)
(* http.ErrAbortHandler reaches the caller.                                *)
(***************************************************************************)
C13_RejectReportsFinished ==
    \A g \in Procs :
        (Done(g) /\ f.injector.kind = "reject" /\ inj.reject.reporter = "test") =>
            /\ StateStarted \in Range(reports)
            /\ StateFinished \in Range(reports)

C15_ErrorWrites ==
    \A g \in Procs :
        /\ "error" \in Range(trace[g]) =>
              /\ trace[g][Len(trace[g])] = "error"
              /\ "testHandler" \notin Range(trace[g])
              /\ handler[g] = <<>>
              /\ w[g].body = Replay(Front(trace[g]), NoResponse).body
                               \o <<inj.error.statusText>>
              /\ Replay(Front(trace[g]), NoResponse) = NoResponse =>
                    w[g] = [code |-> inj.error.statusCode, body |-> <<inj.error.statusText>>]
        /\ (Done(g) /\ f.injector.kind = "error" /\ inj.error # ZeroErrorInjector) =>
              /\ trace[g] = <<"error">>
              /\ w[g] = [code |-> inj.error.statusCode, body |-> <<inj.error.statusText>>]

\* The second request through a Fault around Error(418, "custom") got 418
\* and the custom text.
C15_Witness ==
    \E g \in Procs :
        /\ Done(g)
        /\ served[g] = 2
        /\ f.injector.kind = "error"
        /\ trace[g] = <<"error">>
        /\ w[g] = [code |-> StatusTeapot, body |-> <<"custom">>]

(***************************************************************************)
(* C16.  SlowInjector's handler calls the wait function exactly once with  *)
(* the configured duration and, once the wait has returned, invokes next   *)
(* exactly once with the request; it never short-circuits and writes       *)
(* nothing itself.                                                         *)
(***************************************************************************)
C16_SlowWaitsThenNext ==
    \A g \in Procs :
        /\ (f.injector.kind = "slow" /\ inj.slow # ZeroSlowInjector) =>
              /\ (pc[g] = "serve" /\ handler[g] # <<>> /\ Head(handler[g]) = "slow.wait") =>
                    (waited[g] = <<inj.slow.duration>> /\ w[g] = NoResponse /\ trace[g] = <<>>)
              /\ "testHandler" \in Range(trace[g]) => waited[g] = <<inj.slow.duration>>
              /\ Done(g) =>
                    /\ waited[g] = <<inj.slow.duration>>
                    /\ trace[g] = <<"slow", "testHandler">>
                    /\ w[g] = Replay(<<"testHandler">>, NoResponse)
                    /\ r[g] = testRequest
        /\ (Done(g) /\ panicked[g] = NoPanic /\ f.injector.kind = "chain") =>
              \A k \in DOMAIN trace[g] :
                  trace[g][k] = "slow" => (k < Len(trace[g]) /\ Len(waited[g]) >= 1)

\* A request through a Fault around Slow(2) with a wait function of the
\* caller waited once for 2 and then got next's response.
C16_Witness ==
    \E g \in Procs :
        /\ Done(g)
        /\ f.injector.kind = "slow"
        /\ inj.slow.duration = 2
        /\ inj.slow.slowF = "custom"
        /\ waited[g] = <<2>>
        /\ trace[g] = <<"slow", "testHandler">>
        /\ w[g] = [code |-> StatusAccepted, body |-> <<"Accepted">>]

(***************************************************************************)
(* C17.  A nil or zero-value ErrorInjector, SlowInjector, ChainInjector or *)
(* RandomInjector in a composition is a pass-through: its handler invokes  *)
(* next exactly once and the request does not panic.                       *)
(***************************************************************************)
\* The Fault's injector is a nil pointer or a zero value.
NilOrZeroValue ==
    \/ f.injector.kind \in NilKinds
    \/ f.injector.kind = "slow" /\ inj.slow = ZeroSlowInjector
    \/ f.injector.kind = "error" /\ inj.error = ZeroErrorInjector
    \/ f.injector.kind = "random" /\ inj.random = ZeroRandomInjector
    \/ f.injector.kind = "chain" /\ f.injector.middlewares = <<>>

C17_NilOrZeroPassThrough ==
    \A g \in Procs :
        (Done(g) /\ NilOrZeroValue) =>
            /\ panicked[g] = NoPanic
            /\ trace[g] = <<"testHandler">>

(***************************************************************************)
(* C18.  NewFault returns (nil, ErrNilInjector) for a nil injector,        *)
(* (nil, ErrInvalidPercent) for a participation option outside [0.0,1.0]   *)
(* and (nil, err) as soon as an option returns err; no Fault is returned   *)
(* with an error, and a participation out of range is rejected, never      *)
(* clamped: a Fault returned has the participation it was given.           *)
(***************************************************************************)
\* The option fails: the tests' failing option, or a participation that is
\* not in [0.0, 1.0].
OptionFails(o) ==
    \/ o.opt = "error"
    \/ o.opt = "participation" /\ o.val \notin 0 .. Scale

\* The value of the last participation option of the list, 0.0 without one.
RECURSIVE LastParticipation(_)
LastParticipation(opts) ==
    IF opts = <<>> THEN 0
    ELSE IF opts[Len(opts)].opt = "participation" THEN opts[Len(opts)].val
    ELSE LastParticipation(Front(opts))

C18_NewFaultErrors ==
    ctor.called =>
        LET opts == ctor.opts
            bad  == {k \in DOMAIN opts : OptionFails(opts[k])}
        IN  /\ ctor.i = NilInjector => (ctor.err = ErrNilInjector /\ f = NilFault)
            /\ (ctor.i # NilInjector /\ bad # {}) =>
                  LET k == CHOOSE k \in bad : \A j \in bad : k <= j
                  IN  /\ f = NilFault
                      /\ ctor.err = IF opts[k].opt = "error"
                                    THEN errErrorOption ELSE ErrInvalidPercent
            /\ (ctor.i # NilInjector /\ bad = {}) =>
                  /\ ctor.err = ErrNone
                  /\ f # NilFault
                  /\ f.injector = ctor.i
                  /\ f.participation = LastParticipation(opts)
            /\ ctor.err # ErrNone => f = NilFault

(***************************************************************************)
(* C19.  In every state reached by a successful NewFault followed by any   *)
(* SetEnabled calls, SetParticipation calls (valid or not) and requests,   *)
(* the Fault's injector is not nil and its participation is in [0.0,1.0].  *)
(***************************************************************************)
C19_ValidFault == f.injector # NilInjector /\ f.participation \in 0 .. Scale

(***************************************************************************)
(* C20.  SetParticipation(p) with p outside [0.0,1.0] returns              *)
(* ErrInvalidPercent and leaves the Fault as it was: no write follows the  *)
(* call and later requests are decided as before it.                       *)
(***************************************************************************)
C20_InvalidLeavesUnchanged ==
    [][\A p \in ParticipationInputs \ (0 .. Scale) :
          SetParticipationCall(p) =>
              /\ setParticipation'.err = ErrInvalidPercent
              /\ setParticipation'.pc = "idle"
              /\ f' = f]_vars

(***************************************************************************)
(* C21.  A request that starts once SetEnabled(b) or a successful          *)
(* SetParticipation(p) has returned, with no later call of that setter     *)
(* before it is decided, is decided with the value of that call: after     *)
(* SetEnabled(false) it goes to next, after SetParticipation(0.0) it is    *)
(* not admitted, and after SetEnabled(true) it is admitted exactly when    *)
(* the draw is below the participation.                                    *)
(***************************************************************************)
C21_SetterVisible ==
    \A g \in Procs :
        pc[g] \in {"serve", "done"} =>
            /\ since[g].enabled # <<>> =>
                  /\ seenEnabled[g] = {since[g].enabled[1]}
                  /\ ~since[g].enabled[1] =>
                        /\ ~Admitted(g)
                        /\ ~InjectorRan(g)
                        /\ Done(g) => PassedToNext(g)
            /\ since[g].participation # <<>> =>
                  /\ seenParticipation[g] = {since[g].participation[1]}
                  /\ since[g].participation[1] = 0 => ~Admitted(g)
            /\ (since[g].enabled = <<TRUE>> /\ since[g].participation # <<>>) =>
                  (Admitted(g) <=> ( /\ FLt(rn[g], since[g].participation[1])
                                     /\ FLe(since[g].participation[1], Scale) ))

\* The requests started after SetEnabled(true), SetEnabled(false) and
\* SetParticipation(1.0) had returned: the second one went to next.
C21_Witness ==
    \E g \in Procs :
        /\ Done(g)
        /\ served[g] = 2
        /\ setEnabled.calls = 2
        /\ since[g].enabled = <<FALSE>>
        /\ since[g].participation = <<Scale>>
        /\ f.participation = Scale
        /\ PassedToNext(g)

(***************************************************************************)
(* C22.  NewChainInjector returns (nil, ErrNilInjector) whenever an entry  *)
(* of the list is nil, whatever its position, and no chain; with no nil    *)
(* entry it returns no error and a chain that keeps every step in the      *)
(* order given.                                                            *)
(***************************************************************************)
C22_ChainRejectsNil ==
    (ctor.built /\ ctor.fn = "NewChainInjector") =>
        LET is == ctor.is.elems
        IN  IF \E k \in DOMAIN is : is[k] = NilInjector
            THEN ctor.ierr = ErrNilInjector /\ ctor.i = NilInjector
            ELSE /\ ctor.ierr = ErrNone
                 /\ ctor.i.kind = "chain"
                 /\ Len(ctor.i.middlewares) = Len(is)
                 /\ \A k \in DOMAIN is : ctor.i.middlewares[k] = is[k].kind

\* NewChainInjector refused a list whose last entry is nil.
C22_Witness ==
    /\ ctor.built
    /\ ctor.fn = "NewChainInjector"
    /\ ctor.is = Slice(<<Simple("oneOK"), NilInjector>>)
    /\ ctor.ierr = ErrNilInjector
    /\ ctor.i = NilInjector

(***************************************************************************)
(* C23.  NewRandomInjector called with a list that holds a nil entry       *)
(* returns an error and no RandomInjector: it does not panic and builds    *)
(* nothing.                                                                *)
(***************************************************************************)
C23_RandomRejectsNil ==
    ( /\ ctor.built
      /\ ctor.fn = "NewRandomInjector"
      /\ \E k \in DOMAIN ctor.is.elems : ctor.is.elems[k] = NilInjector )
    => /\ ~ctor.panic
       /\ ctor.ierr # ErrNone
       /\ ctor.i = NilInjector
       /\ inj.random = ZeroRandomInjector

(***************************************************************************)
(* C24.  NewChainInjector succeeds for a nil and for an empty list, and    *)
(* every request through the chain it returns reaches next exactly once    *)
(* with nothing else done: no other frame runs, nothing else is written,   *)
(* nothing is waited for or drawn and nothing panics.                      *)
(***************************************************************************)
C24_EmptyChainPassThrough ==
    (ctor.fn = "NewChainInjector" /\ ctor.is.elems = <<>>) =>
        /\ ctor.built =>
              (ctor.ierr = ErrNone /\ ctor.i = [kind |-> "chain", middlewares |-> <<>>])
        /\ \A g \in Procs :
              /\ Done(g) =>
                    /\ trace[g] = <<"testHandler">>
                    /\ w[g] = [code |-> StatusAccepted, body |-> <<"Accepted">>]
                    /\ panicked[g] = NoPanic
                    /\ waited[g] = <<>>
                    /\ drawn[g] = <<>>

\* The second request through a Fault around the chain built from a nil
\* list was admitted and reached next.
C24_Witness ==
    \E g \in Procs :
        /\ ctor.fn = "NewChainInjector"
        /\ ctor.is = NilSlice
        /\ ctor.called
        /\ f.injector = [kind |-> "chain", middlewares |-> <<>>]
        /\ Done(g)
        /\ served[g] = 2
        /\ Admitted(g)
        /\ trace[g] = <<"testHandler">>

(***************************************************************************)
(* C25.  NewRandomInjector succeeds for a nil and for an empty list, and   *)
(* every request through the RandomInjector it returns reaches next        *)
(* exactly once; no index is drawn: the generator stays as seeded.         *)
(***************************************************************************)
\* The seed the options of NewRandomInjector set, the default without one.
RECURSIVE SeedOf(_, _)
SeedOf(opts, default) ==
    IF opts = <<>> THEN default
    ELSE IF opts[Len(opts)].opt = "randSeed" THEN opts[Len(opts)].val
    ELSE SeedOf(Front(opts), default)

C25_EmptyRandomPassThrough ==
    ( /\ ctor.fn = "NewRandomInjector"
      /\ ctor.is.elems = <<>>
      /\ withError \notin Range(ctor.iopts) ) =>
        /\ ctor.built =>
              /\ ctor.ierr = ErrNone
              /\ ~ctor.panic
              /\ ctor.i = Simple("random")
              /\ inj.random.middlewares = <<>>
              /\ inj.random.rand = SeedOf(ctor.iopts, 1) % RandM
              /\ inj.random.randMtx = NoOne
        /\ \A g \in Procs :
              /\ drawn[g] = <<>>
              /\ Done(g) =>
                    /\ panicked[g] = NoPanic
                    /\ trace[g] = <<"testHandler">>
                    /\ w[g] = [code |-> StatusAccepted, body |-> <<"Accepted">>]

\* The second request through a Fault around the RandomInjector built from
\* an empty list was admitted and reached next.
C25_Witness ==
    \E g \in Procs :
        /\ ctor.fn = "NewRandomInjector"
        /\ ctor.is = Slice(<<>>)
        /\ ctor.called
        /\ f.injector = Simple("random")
        /\ Done(g)
        /\ served[g] = 2
        /\ Admitted(g)
        /\ trace[g] = <<"testHandler">>

(***************************************************************************)
(* C26.  The indices a RandomInjector selects are a function of its seed,  *)
(* of the number n of its choices and of the number of selections made so  *)
(* far, and of nothing else: two RandomInjectors built with the same seed  *)
(* over n choices select the same sequence of indices, and without a seed  *)
(* option the seed is 1, so the first selection is the same in every run.  *)
(***************************************************************************)
\* The requests among the first k that a Fault with the default seed and
\* participation p admits.
RECURSIVE AdmittedAmong(_, _)
AdmittedAmong(k, p) ==
    IF k = 0 THEN 0
    ELSE AdmittedAmong(k - 1, p)
           + (IF ((RandAfter(k, 1 % RandM) * Scale) \div RandM) < p THEN 1 ELSE 0)

\* The selections the RandomInjector has made for the requests of g.
SelectionsOf(g) ==
    AdmittedAmong(served[g], ctor.opts[2].val)
      + (IF ~Done(g) /\ drawn[g] # <<>> THEN 1 ELSE 0)

C26_SeedDeterminesChoices ==
    ( /\ ctor.built
      /\ ctor.fn = "NewRandomInjector"
      /\ ctor.ierr = ErrNone
      /\ ~ctor.panic
      /\ \A k \in DOMAIN ctor.iopts : ctor.iopts[k].opt # "randIntF"
      /\ ctor.is.elems # <<>> ) =>
        LET seed == SeedOf(ctor.iopts, 1)
            n    == Len(ctor.is.elems)
        IN  \A g \in Procs :
                clients[g] > 0 =>
                    /\ inj.random.rand = RandAfter(SelectionsOf(g), seed % RandM)
                    /\ drawn[g] # <<>> =>
                          drawn[g] = <<RandAfter(IF Done(g) THEN AdmittedAmong(served[g], ctor.opts[2].val)
                                                 ELSE SelectionsOf(g),
                                                 seed % RandM) % n>>

\* Without a seed option the first selection among two choices was index
\* 0 and the second, two requests later, index 1.
C26_Witness ==
    \E g \in Procs :
        /\ ctor.fn = "NewRandomInjector"
        /\ ctor.iopts = <<>>
        /\ Len(ctor.is.elems) = 2
        /\ ctor.called
        /\ f.participation = Scale
        /\ served[g] = 2
        /\ Done(g)
        /\ drawn[g] = <<1>>
        /\ inj.random.rand = 3

(***************************************************************************)
(* C27.  The decisions of a Fault are a function of its seed, of its       *)
(* participation and enabled flag and of the number of requests it has     *)
(* served, and of nothing else: two Faults built with the same seed and    *)
(* options decide identically on identical request sequences; a Fault      *)
(* built without a seed option has the seed 1.                             *)
(***************************************************************************)
\* The draws the Fault has made for the requests of g.
FaultDrawsOf(g) ==
    IF ~f.enabled THEN 0
    ELSE served[g] + (IF pc[g] \in {"unlock", "readParticipation", "readParticipation2",
                                    "dispatch", "serve"} THEN 1 ELSE 0)

C27_SeedDeterminesAdmission ==
    (ctor.called /\ ctor.err = ErrNone) =>
        LET seed == SeedOf(ctor.opts, 1)
        IN  /\ f.randSeed = seed
            /\ f.randF.fn = "Float32"
            /\ \A g \in Procs :
                  clients[g] > 0 =>
                      /\ f.rand = RandAfter(FaultDrawsOf(g), seed % RandM)
                      /\ pc[g] \in {"serve", "done"} =>
                            ( Admitted(g) <=>
                                /\ f.enabled
                                /\ FLt((RandAfter(FaultDrawsOf(g), seed % RandM) * Scale) \div RandM,
                                       f.participation)
                                /\ FLe(f.participation, Scale) )

\* A Fault built without a seed option, at participation 0.5, sent its
\* second request to next after its second draw.
C27_Witness ==
    \E g \in Procs :
        /\ ctor.called
        /\ ctor.err = ErrNone
        /\ \A k \in DOMAIN ctor.opts : ctor.opts[k].opt # "randSeed"
        /\ f.enabled
        /\ f.participation = 1
        /\ f.randSeed = 1
        /\ Done(g)
        /\ served[g] = 2
        /\ f.rand = RandAdvance(RandAdvance(1))
        /\ ~Admitted(g)

(***************************************************************************)
(* C28.  A Fault and the RandomInjector it delegates to draw from          *)
(* generators of their own: the state of each generator is determined by   *)
(* its own seed and by the number of draws its own component has made,     *)
(* however many draws the other component has made.                        *)
(***************************************************************************)
C28_OwnGenerators ==
    ( /\ ctor.fn = "NewRandomInjector"
      /\ ctor.called
      /\ ctor.err = ErrNone
      /\ \A k \in DOMAIN ctor.iopts : ctor.iopts[k].opt # "randIntF"
      /\ ctor.is.elems # <<>> ) =>
        \A g \in Procs :
            clients[g] > 0 =>
                /\ f.rand = RandAfter(FaultDrawsOf(g), 1 % RandM)
                /\ inj.random.rand = RandAfter(SelectionsOf(g), SeedOf(ctor.iopts, 1) % RandM)

\* With the same seed, the Fault at participation 0.5 has drawn twice and
\* its RandomInjector once: their generators differ.
C28_Witness ==
    \E g \in Procs :
        /\ ctor.fn = "NewRandomInjector"
        /\ ctor.iopts = <<>>
        /\ ctor.is.elems # <<>>
        /\ ctor.called
        /\ f.participation = 1
        /\ Done(g)
        /\ served[g] = 2
        /\ f.rand = RandAdvance(RandAdvance(1))
        /\ inj.random.rand = RandAdvance(1)

(***************************************************************************)
(* C29.  The index a RandomInjector selects with among its n choices is in *)
(* [0,n), with the default generator and with any function installed      *)
(* through WithRandIntFunc: no request panics with an index out of range.  *)
(***************************************************************************)
C29_IndexInRange ==
    \A g \in Procs :
        (f.injector.kind = "random" /\ Len(inj.random.middlewares) >= 1) =>
            /\ \A k \in DOMAIN drawn[g] :
                   drawn[g][k] \in 0 .. Len(inj.random.middlewares) - 1
            /\ panicked[g] # IndexOutOfRange

(***************************************************************************)
(* C30.  The Reporter of a SlowInjector or of an ErrorInjector receives    *)
(* StateStarted before the injector's work begins and StateFinished after  *)
(* it is over: for a request it observes StateStarted strictly before      *)
(* StateFinished.                                                          *)
(***************************************************************************)
C30_StartedBeforeFinished ==
    (f.injector.kind \in {"slow", "error"}) =>
        \A k \in DOMAIN reports :
            reports[k] = StateFinished =>
                \E j \in 1 .. k - 1 : reports[j] = StateStarted

(***************************************************************************)
(* C31.  Reporting never blocks the request: also with a Reporter whose    *)
(* Report never returns, every request that a SlowInjector, an             *)
(* ErrorInjector or a RejectInjector handles comes to its end.             *)
(***************************************************************************)
C31_ReportingNeverBlocks == \A g \in Procs : (pc[g] = "serve") ~> Done(g)

(***************************************************************************)
(* C32.  NewErrorInjector(code, opts) returns (nil, ErrInvalidHTTPCode)    *)
(* for every code without a standard status text; for any other code the   *)
(* injector's status text is the text given with WithStatusText when that  *)
(* option was passed, and the standard text of the code when it was not.   *)
(***************************************************************************)
\* The text of the last WithStatusText of the options, none without one.
RECURSIVE TextGiven(_)
TextGiven(opts) ==
    IF opts = <<>> THEN <<>>
    ELSE IF opts[Len(opts)].opt = "statusText" THEN <<opts[Len(opts)].val>>
    ELSE TextGiven(Front(opts))

C32_ErrorInjectorText ==
    (ctor.built /\ ctor.fn = "NewErrorInjector" /\ withError \notin Range(ctor.iopts)) =>
        IF StatusText(ctor.code) = ""
        THEN ctor.ierr = ErrInvalidHTTPCode /\ ctor.i = NilInjector
        ELSE /\ ctor.ierr = ErrNone
             /\ ctor.i = Simple("error")
             /\ inj.error.statusCode = ctor.code
             /\ inj.error.statusText = IF TextGiven(ctor.iopts) # <<>>
                                       THEN TextGiven(ctor.iopts)[1]
                                       ELSE StatusText(ctor.code)

(***************************************************************************)
(* C34.  A handler obtained once from ChainInjector.Handler(next) and used *)
(* for several requests, one after the other, treats each of them alone:   *)
(* the k-th request runs each step of the chain exactly once, in order, up *)
(* to the first step that halts, and reaches next at most once, whatever   *)
(* the requests before it did.                                             *)
(***************************************************************************)
C34_HandlerReusable ==
    \A g \in Procs :
        (Done(g) /\ clients = Sequential(MaxServed))
        => trace[g] = FramesRun(ChainCompose(f.injector.middlewares, testHandler))

\* The accesses of the captured variable next that goroutine g is about to
\* make.
WritesNext(g) == pc[g] = "serve" /\ handler[g] = <<"closure.assign">>

ReadsNext(g) == pc[g] = "serve" /\ handler[g] = <<"closure.loop">>

(***************************************************************************)
(* C35.  Concurrent requests served by the same handler obtained from      *)
(* ChainInjector.Handler(next) share no mutable state: no goroutine writes *)
(* a variable that another goroutine reads or writes at the same time      *)
(* without synchronisation.                                                *)
(***************************************************************************)
C35_NoSharedNext ==
    \A g1, g2 \in Procs :
        g1 # g2 => ~(WritesNext(g1) /\ (WritesNext(g2) \/ ReadsNext(g2)))

\* Goroutine g is inside f.randF, inside i.randF.
InFaultDraw(g) == pc[g] = "draw"

InIndexDraw(g) == pc[g] = "serve" /\ handler[g] # <<>> /\ Head(handler[g]) = "random.draw"

(***************************************************************************)
(* C36.  The Fault's participation draw and the RandomInjector's index     *)
(* draw are each made while holding the mutex of the component: the        *)
(* goroutine inside f.randF holds f.randMtx, the goroutine inside i.randF  *)
(* holds i.randMtx, and two requests are never inside the same one at the  *)
(* same time, also when the function was supplied by the caller.           *)
(***************************************************************************)
C36_DrawUnderLock ==
    /\ \A g \in Procs : /\ InFaultDraw(g) => randMtx = g
                        /\ InIndexDraw(g) => inj.random.randMtx = g
    /\ \A g1, g2 \in Procs :
           g1 # g2 => /\ ~(InFaultDraw(g1) /\ InFaultDraw(g2))
                      /\ ~(InIndexDraw(g1) /\ InIndexDraw(g2))

\* With functions supplied by the caller: one request is inside i.randF
\* while the other waits for i.randMtx, and one is inside f.randF while the
\* other waits for f.randMtx.
C36_Witness ==
    /\ f.randF.fn # "Float32"
    /\ inj.random.randF.fn # "Intn"
    /\ \E g1, g2 \in Procs :
           /\ g1 # g2
           /\ \/ /\ InIndexDraw(g1)
                 /\ pc[g2] = "serve" /\ handler[g2] # <<>> /\ Head(handler[g2]) = "random"
              \/ InFaultDraw(g1) /\ pc[g2] = "lock"

\* Control has passed to the injector's handler or to next: the request is
\* past the handler's decision, and outside the RandomInjector's draw.
PastAdmission(g) == pc[g] \in {"dispatch", "serve", "done"}

PastIndexDraw(g) ==
    ~(pc[g] = "serve" /\ handler[g] # <<>>
                      /\ Head(handler[g]) \in {"random.draw", "random.unlock"})

\* Goroutine g is blocked in SlowInjector's wait; its request was aborted.
InSlowWait(g) == pc[g] = "serve" /\ handler[g] # <<>> /\ Head(handler[g]) = "slow.wait"

Aborted(g) == panicked[g] = ErrAbortHandler

\* No lock is held by a goroutine whose control is past the draw.
NoLockPastDraw ==
    \A g \in Procs : /\ PastAdmission(g) => randMtx # g
                     /\ PastIndexDraw(g) => inj.random.randMtx # g

(***************************************************************************)
(* C37.  A randomness lock is held only for the single draw: it is already *)
(* released when control passes to the injector's handler or to next, so a *)
(* request blocked in SlowInjector's wait or aborted by RejectInjector     *)
(* holds no lock, and every request that starts admission eventually       *)
(* completes its draw, whatever the other requests do.                     *)
(***************************************************************************)
C37_LockOnlyForDraw ==
    /\ []NoLockPastDraw
    /\ \A g \in Procs : (pc[g] = "lock") ~> (pc[g] = "unlock")

\* One request is blocked in SlowInjector's wait while the other is inside
\* the draw of the RandomInjector, holding its mutex.
C37_Witness ==
    \E g1, g2 \in Procs :
        /\ g1 # g2
        /\ InSlowWait(g1)
        /\ InIndexDraw(g2)
        /\ inj.random.randMtx = g2

\* The statements of participate.
InParticipate(g) ==
    pc[g] \in {"lock", "draw", "unlock", "readParticipation", "readParticipation2"}

(***************************************************************************)
(* C38.  A request that is not policy-eligible (the Fault is disabled, or  *)
(* the path or header lists reject it) consumes no value from the          *)
(* randomness source: it never enters participate, no draw is made for it  *)
(* and the state of the generator after the request is the state before    *)
(* it, here the state the seed gave.                                       *)
(***************************************************************************)
C38_IneligibleDrawsNothing ==
    \A g \in Procs :
        (pc[g] # "idle" /\ ~PolicyEligible(g))
        => /\ ~InParticipate(g)
           /\ rn[g] = 0
           /\ f.rand = NewSource(defaultRandSeed)

\* A request the header or path lists rejected was served by next by an
\* enabled Fault at participation 1.0, the generator untouched.
C38_Witness ==
    \E g \in Procs :
        /\ Done(g)
        /\ f.enabled
        /\ f.participation = Scale
        /\ ~checkAllowBlockLists(f, TRUE, r[g])
        /\ PassedToNext(g)
        /\ f.rand = NewSource(defaultRandSeed)

(***************************************************************************)
(* C39.  A pair (k, v) of a header list matches a request only when the    *)
(* request carries header k with value v; a request without header k       *)
(* matches no pair for k, whatever v is, the empty string included.  So an *)
(* enabled Fault at participation 1.0 with the default generator admits a  *)
(* request on an eligible path when the header allowlist is empty and no   *)
(* pair of the blocklist is carried by the request, and does not admit a   *)
(* request that carries no pair of a non-empty allowlist.                  *)
(***************************************************************************)
C39_AbsentHeaderNoMatch ==
    \A g \in Procs :
        ( /\ Done(g)
          /\ f.enabled
          /\ f.participation = Scale
          /\ f.randF.fn = "Float32"
          /\ PathEligible(f, r[g]) )
        => /\ (DOMAIN f.headerAllowlist = {} /\ ~BlocklistMatch(f, r[g])) => Admitted(g)
           /\ (DOMAIN f.headerAllowlist # {} /\ ~AllowlistMatch(f, r[g])) => ~Admitted(g)

\* A step of SetEnabled, of SetParticipation; a call of SetParticipation
\* that returns an error.
SetEnabledStep == setEnabled' # setEnabled

SetParticipationStep == setParticipation' # setParticipation

SetParticipationFails ==
    /\ setParticipation'.calls = setParticipation.calls + 1
    /\ setParticipation'.err # ErrNone

(***************************************************************************)
(* C40.  SetEnabled changes only f.enabled and SetParticipation changes    *)
(* only f.participation: no step of either changes the other field, the    *)
(* path or header lists, the injector, the random function, the state of   *)
(* the generator or a mutex, and a SetParticipation that returns an error  *)
(* changes nothing at all and writes nothing later.                        *)
(***************************************************************************)
C40_SettersTouchOneField ==
    [][ /\ SetEnabledStep =>
             /\ [f' EXCEPT !.enabled = f.enabled] = f
             /\ UNCHANGED <<inj, randMtx>>
        /\ SetParticipationStep =>
             /\ [f' EXCEPT !.participation = f.participation] = f
             /\ UNCHANGED <<inj, randMtx>>
        /\ SetParticipationFails =>
             /\ UNCHANGED <<f, inj, randMtx>>
             /\ setParticipation'.pc = "idle" ]_vars

\* SetEnabled has written its value, SetParticipation has written one and
\* then failed, and requests have been served meanwhile.
C40_Witness ==
    /\ setEnabled.pc = "idle"
    /\ setEnabled.calls > 0
    /\ f.enabled = setEnabled.val
    /\ setParticipation.pc = "idle"
    /\ setParticipation.calls > 1
    /\ setParticipation.err = ErrInvalidPercent
    /\ \E g \in Procs : served[g] > 0

====
